---- MODULE Spec2Model ----
(***************************************************************************)
(* Model of the online-judge submission pipeline:                          *)
(*   utils/job_queue.py   in-memory job store, FIFO and worker threads     *)
(*   keep_alive.py        ensure_workers, _process_submission_job, api_job *)
(*   handlers/submit.py   chat path: submission_queue, judge_worker,       *)
(*                        process_submission                               *)
(*   user_utils.py        the rating ledger on the users collection        *)
(* Threads interleave at the granularity of the statements that touch      *)
(* shared state; a MongoDB operation (find_one, insert_one, update_one) is *)
(* one atomic step.                                                        *)
(***************************************************************************)
EXTENDS Integers, Sequences, FiniteSets, TLC

(* ------------------------------ bounds -------------------------------- *)
\* number of create_job calls in a behaviour
MaxJobs == 2
\* threads that call create_job (Flask request threads)
NumIngress == 2
\* threads that call ensure_workers / start_worker_once
NumStarters == 2
\* largest value of the `workers` argument tried (the cap of 4 is below it)
MaxWorkersArg == 5
\* number of chat submissions put on submission_queue in a behaviour
MaxSubs == 2
\* test cases of a problem
NumTests == 2
\* processes that call update_user_rating on the shared users collection
NumClients == 2
\* number of update_user_rating calls those processes make in a behaviour
MaxCalls == 2
\* number of POST /api/submit requests in a behaviour
MaxSubmits == 3
\* largest number of test cases of a problem handed to the orchestrator
MaxTests == 3
\* largest number of lines of an expected or actual output text
MaxLines == 3
\* users of each kind in the ranking; pages asked for
MaxPerKind == 4
MaxPage == 3
\* documents in a collection that is sorted
MaxRanked == 4
\* concurrent callers of run_code
NumCallers == 2

(* --------------------------- program constants ------------------------ *)
\* job_queue.py:72-73  "if workers > 4: workers = 4"
WorkerCap == 4
\* keep_alive.py:99  start_worker_once(_process_submission_job, 3)
EnsureWorkersArg == 3
\* my_bot.py:51  for _ in range(3): asyncio.create_task(judge_worker())
JudgeWorkerCount == 3
\* handlers/rankings.py:9
ITEMS_PER_PAGE == 10
\* handlers/rankings.py:24  the time "9999-12-31 23:59:59" tells, and
\* handlers/rankings.py:15  datetime.max, a fraction of a second later
DefaultTime == 9999
DatetimeMax == 10000

None == [tag |-> "None"]
Str(s) == [tag |-> "str", val |-> s]

IngressThreads == 1..NumIngress
Starters == 1..NumStarters
JobIds == 1..MaxJobs
\* an id no create_job call ever produced (a poller may still ask for it)
UnknownJobId == MaxJobs + 1

VARIABLES
    jobs,            \* _jobs: job id -> job dict
    job_queue,       \* _job_queue: FIFO of job ids
    worker_started,  \* _worker_started
    worker_lock,     \* _worker_lock: 0 = free, otherwise the starter holding it
    WORKER_STARTED,  \* keep_alive._WORKER_STARTED
    wpc,             \* worker thread -> position in _worker_loop (a sequence: one entry per thread)
    wjob,            \* worker thread -> job id it holds (0 = none)
    wout,            \* worker thread -> outcome of process_fn, not yet stored
    spc,             \* starter thread -> position in ensure_workers / start_worker_once
    sarg,            \* starter thread -> `workers` argument of its call
    ipc,             \* ingress thread -> position in create_job
    ijob,            \* ingress thread -> job id being created
    iarg,            \* ingress thread -> payload argument of its create_job call
    clock,           \* time.time()
    lastPoll,        \* response of the most recent api_job call
    \* history (not program state): what happened to each job so far
    allocated,       \* ids generated by uuid4 in create_job
    returned,        \* ids create_job has returned
    putCount,        \* job id -> number of times put on the FIFO
    getCount,        \* job id -> number of times taken from the FIFO
    callCount,       \* job id -> number of process_fn invocations
    spawnCalls,      \* number of start_worker_once calls that started threads
    \* user store and chat path
    users,               \* users_col: user id -> user document
    pending_submissions, \* handlers/submit.py pending_submissions: user id -> [pid, lang]
    submission_queue,    \* handlers/submit.py submission_queue (asyncio.Queue)
    jpc,                 \* judge_worker task -> position in its loop (one entry per task)
    jsub,                \* judge_worker task -> the submission it took
    subCount,            \* history: number of submissions put on submission_queue
    raisedSubs,          \* history: submissions whose process_submission raised
    handledSubs,         \* history: submissions whose process_submission ended
    lpc,                 \* ledger client -> position in update_user_rating
    larg,                \* ledger client -> arguments of its call
    lread,               \* ledger client -> the document its find_one returned
    callsBegun,          \* history: user id -> update_user_rating calls begun
    callsAborted,        \* history: calls ended by an exception of the store
    applied,             \* history: the last two update_user_rating calls, with the
                         \* user's document before and after each
    deployment,          \* "webapp": keep_alive with LOCAL_MODE=1 (no bot);
                         \* "bot": my_bot.py (no Flask app, no job queue)
    lastSubmit,          \* the most recent POST /api/submit: its number, the request
                         \* and what api_submit decided for it
    otests,              \* orchestrator input: what the Runner yields for each test case
    ocalls,              \* test cases the Runner was invoked for, in order of invocation
    overdict,            \* what the orchestrator yielded (None: not run yet)
    cexp,                \* comparator input: expected text, as its lines
    cact,                \* comparator input: actual text, as its lines
    cres,                \* comparator results for cexp and cact (None: not compared yet)
    ntext,               \* normalize_output input: a text, as its lines
    nlines,              \* [lines |-> what normalize_output returned for ntext]
                         \* (None: not called yet)
    rcol,                \* ranking input: the documents of users_col, in find() order
    rpage,               \* ranking input: the page asked for
    rmsg,                \* what build_ranking_message returned (None: not called yet)
    rsorted,             \* [users |-> what get_sorted_users returned] (None: not called yet)
    pflag,               \* the judged problem's allow_unordered_output
    fres,                \* one test case judged on the texts cexp and cact: the path,
                         \* the flag the comparison was made with, and its result
                         \* (None: not judged yet)
    rcpc,                \* run_code caller -> position in its run_code call
    rclang,              \* run_code caller -> the lang argument of its call
    tmpdir,              \* run_code caller -> the directory of its `with` block (0: none)
    rcret,               \* run_code caller -> the string its call returned
    rcverdict,           \* run_code caller -> what the orchestrator made of that string
    rchist,              \* history: run_code caller -> what its call did and met
    fsdirs,              \* the temporary directories that exist
    lastRun,             \* the response of the most recent POST /api/run (None: none yet)
    answered             \* the job ids that POST /api/submit has returned in a response

queueVars == <<jobs, job_queue, clock, allocated, returned, putCount, ipc, ijob, iarg>>
workerVars == <<wpc, wjob, wout, getCount, callCount>>
startVars == <<worker_started, worker_lock, WORKER_STARTED, spc, sarg, spawnCalls>>
jobSide == <<queueVars, workerVars, startVars, lastPoll>>
chatVars == <<pending_submissions, submission_queue, jpc, jsub, subCount, raisedSubs, handledSubs>>
clientVars == <<lpc, larg, lread, callsBegun, callsAborted>>
ledgerVars == <<users, applied, clientVars>>
chatSide == <<chatVars, ledgerVars>>
judgeVars == <<otests, ocalls, overdict>>
compareVars == <<cexp, cact, cres>>
normVars == <<ntext, nlines>>
rankVars == <<rcol, rpage, rmsg, rsorted>>
flagVars == <<pflag, fres>>
runVars == <<rcpc, rclang, tmpdir, rcret, rcverdict, rchist, fsdirs>>
apiVars == <<lastRun, answered>>
moreVars == <<normVars, rankVars, flagVars, runVars, apiVars>>
pureVars == <<judgeVars, compareVars, moreVars>>
vars == <<jobSide, chatSide, deployment, lastSubmit, pureVars>>

Callers == 1..NumCallers
\* the directory names mkdtemp can draw: as many as there are callers, so
\* that a free one is always left
DirNames == 1..NumCallers

(* ------------------------- problems and runner ------------------------ *)
\* The problem store is read-only.  One Easy problem with two test cases.
ProblemIds == {1}
SupportedLangs == {"py", "c", "cpp", "java"}

\* What a submitted program does; it stands for the source text.
Codes == {"correct", "wrong", "loops"}

\* handlers/submit.py run_code: the string it returns for one test case,
\* classified.  "out_ok" / "out_bad" are captured stdout that does / does not
\* compare equal to the expected output.
RunCode(lang, code, tc) ==
    IF lang \notin SupportedLangs THEN "unsupported"
    ELSE IF code = "loops" THEN "timeout"
    ELSE IF code = "wrong" /\ tc = NumTests THEN "out_bad"
    ELSE "out_ok"

\* out.startswith(("⚠️", "⏰", "❗"))
IsFailure(out) == out \in {"unsupported", "timeout", "runtime", "compile"}

RECURSIVE JudgeFrom(_, _, _)
\* keep_alive.py:57-74: the loop over the test cases from test case tc on.
JudgeFrom(lang, code, tc) ==
    IF tc > NumTests THEN "AC"
    ELSE LET out == RunCode(lang, code, tc)
         IN  IF IsFailure(out) THEN out
             ELSE IF out # "out_ok" THEN "WA"
             ELSE JudgeFrom(lang, code, tc + 1)

\* keep_alive._process_submission_job: what the call yields for a payload.
\* On the accepted path it calls user_utils.update_user_score and
\* user_utils.add_solved_problem; user_utils defines neither, so the call
\* raises AttributeError there.
ProcessSubmissionJob(payload) ==
    LET v == JudgeFrom(payload.language, payload.code, 1)
    IN  IF payload.problem_id \notin ProblemIds
          THEN [raised |-> FALSE, value |-> [tag |-> "dict", ok |-> FALSE, verdict |-> "Problem not found"]]
        ELSE IF IsFailure(v)
          THEN [raised |-> FALSE, value |-> [tag |-> "dict", ok |-> FALSE, verdict |-> v]]
        ELSE IF v = "WA"
          THEN [raised |-> FALSE, value |-> [tag |-> "dict", ok |-> TRUE, verdict |-> "WA"]]
        ELSE [raised |-> TRUE, value |-> Str("module 'user_utils' has no attribute 'update_user_score'")]

Payloads ==
    { [user_id |-> 1, problem_id |-> 1, language |-> "py", code |-> c] : c \in Codes }

(* ------------------------------ job queue ----------------------------- *)
\* uuid.uuid4(): an id different from every id generated so far
FreshJobId(used) == CHOOSE id \in JobIds : id \notin used /\ \A j \in JobIds \ used : id <= j

\* job_queue.py:38-46  the job dict is stored under a fresh id
CreateJobStore(t, payload) ==
    /\ deployment = "webapp"
    /\ ipc[t] = "idle"
    /\ allocated # JobIds
    /\ LET id == FreshJobId(allocated)
       IN  /\ jobs' = (id :> [id |-> id, status |-> "queued", payload |-> payload,
                              result |-> None, error |-> None, created_at |-> clock])
                      @@ jobs
           /\ allocated' = allocated \cup {id}
           /\ ijob' = [ijob EXCEPT ![t] = id]
           /\ iarg' = [iarg EXCEPT ![t] = payload]
    /\ clock' = clock + 1
    /\ ipc' = [ipc EXCEPT ![t] = "put"]
    /\ UNCHANGED <<chatSide, deployment, lastSubmit, pureVars, job_queue, returned, putCount, workerVars, startVars, lastPoll>>

\* a lookup that removes what it finds
ApiJobPop(id) ==
    /\ lastPoll' = IF id \in DOMAIN jobs
                      THEN [id |-> id, code |-> 200, status |-> jobs[id].status,
                            result |-> jobs[id].result, error |-> jobs[id].error]
                      ELSE [id |-> id, code |-> 404, status |-> "", result |-> None, error |-> None]
    /\ jobs' = [j \in DOMAIN jobs \ {id} |-> jobs[j]]
    /\ \A w \in DOMAIN wjob : wjob[w] # id
    /\ UNCHANGED <<chatSide, deployment, lastSubmit, pureVars, job_queue, clock, allocated, returned, putCount, ipc, ijob, iarg,
                   workerVars, startVars>>

\* a put that does not append at the tail (a LIFO queue)
CreateJobPutFront(t) ==
    /\ ipc[t] = "put"
    /\ job_queue' = <<ijob[t]>> \o job_queue
    /\ putCount' = [putCount EXCEPT ![ijob[t]] = @ + 1]
    /\ returned' = returned \cup {ijob[t]}
    /\ ipc' = [ipc EXCEPT ![t] = "idle"]
    /\ ijob' = [ijob EXCEPT ![t] = 0]
    /\ iarg' = [iarg EXCEPT ![t] = None]
    /\ UNCHANGED <<chatSide, deployment, lastSubmit, pureVars, jobs, clock, allocated, workerVars, startVars, lastPoll>>

\* job_queue.py:47-48  _job_queue.put(job_id); return job_id
CreateJobPut(t) ==
    /\ ipc[t] = "put"
    /\ job_queue' = Append(job_queue, ijob[t])
    /\ putCount' = [putCount EXCEPT ![ijob[t]] = @ + 1]
    /\ returned' = returned \cup {ijob[t]}
    /\ ipc' = [ipc EXCEPT ![t] = "idle"]
    /\ ijob' = [ijob EXCEPT ![t] = 0]
    /\ iarg' = [iarg EXCEPT ![t] = None]
    /\ UNCHANGED <<chatSide, deployment, lastSubmit, pureVars, jobs, clock, allocated, workerVars, startVars, lastPoll>>

\* job_queue.py:34-48  create_job(payload), a whole call by thread t
CreateJob(t, payload) ==
    /\ deployment = "webapp"
    /\ ipc[t] = "idle"
    /\ allocated # JobIds
    /\ LET id == FreshJobId(allocated)
       IN  /\ jobs' = (id :> [id |-> id, status |-> "queued", payload |-> payload,
                              result |-> None, error |-> None, created_at |-> clock])
                      @@ jobs
           /\ allocated' = allocated \cup {id}
           /\ job_queue' = Append(job_queue, id)
           /\ putCount' = [putCount EXCEPT ![id] = @ + 1]
           /\ returned' = returned \cup {id}
    /\ clock' = clock + 1
    /\ UNCHANGED <<chatSide, deployment, lastSubmit, pureVars, ipc, ijob, iarg, workerVars, startVars, lastPoll>>

\* job_queue.py:51-52 get_job and keep_alive.py:312-322 api_job
GetJob(id) == IF id \in DOMAIN jobs THEN jobs[id] ELSE None

ApiJob(id) ==
    /\ LET j == GetJob(id)
       IN  lastPoll' = IF j = None
                         THEN [id |-> id, code |-> 404, status |-> "", result |-> None, error |-> None]
                         ELSE [id |-> id, code |-> 200, status |-> j.status,
                               result |-> j.result, error |-> j.error]
    /\ UNCHANGED <<chatSide, deployment, lastSubmit, pureVars, queueVars, workerVars, startVars>>

(* ---------------------------- worker start-up ------------------------- *)
\* job_queue.py:70-73  the number of threads asked for, made sane
ClampWorkers(n) == IF n < 1 THEN 1 ELSE IF n > WorkerCap THEN WorkerCap ELSE n

\* job_queue.py:75-82  n threads running _worker_loop are created and started
SpawnWorkers(n) ==
    /\ wpc' = wpc \o [i \in 1..n |-> "get"]
    /\ wjob' = wjob \o [i \in 1..n |-> 0]
    /\ wout' = wout \o [i \in 1..n |-> None]
    /\ spawnCalls' = spawnCalls + 1

\* job_queue.py:55-84  start_worker_once(process_fn, n), a whole call.  The body
\* runs under _worker_lock, so calls do not overlap one another.
StartWorkerOnce(n) ==
    /\ deployment = "webapp"
    /\ worker_lock = 0
    /\ IF worker_started
         THEN UNCHANGED <<wpc, wjob, wout, spawnCalls, worker_started>>
         ELSE /\ SpawnWorkers(ClampWorkers(n))
              /\ worker_started' = TRUE
    /\ UNCHANGED <<chatSide, deployment, lastSubmit, pureVars, worker_lock, WORKER_STARTED, spc, sarg,
                   getCount, callCount, queueVars, lastPoll>>

\* keep_alive.py:88-102  ensure_workers(), a whole call
EnsureWorkers ==
    /\ deployment = "webapp"
    /\ worker_lock = 0
    /\ ~WORKER_STARTED
    /\ IF worker_started
         THEN UNCHANGED <<wpc, wjob, wout, spawnCalls, worker_started>>
         ELSE /\ SpawnWorkers(ClampWorkers(EnsureWorkersArg))
              /\ worker_started' = TRUE
    /\ WORKER_STARTED' = TRUE
    /\ UNCHANGED <<chatSide, deployment, lastSubmit, pureVars, worker_lock, spc, sarg,
                   getCount, callCount, queueVars, lastPoll>>

\* The same two functions statement by statement, for callers that race.
\* A starter thread s is in ensure_workers (positions "ew_*") or in a direct
\* start_worker_once call (positions "sw_*").
InEnsureWorkers(pc) == pc \in {"ew_call", "ew_locked", "ew_spawn", "ew_flag"}
Stage(pc, stage) == IF InEnsureWorkers(pc) THEN "ew_" \o stage ELSE "sw_" \o stage
\* where the starter continues once start_worker_once returns
AfterStart(pc) == IF InEnsureWorkers(pc) THEN "ew_set" ELSE "idle"

\* keep_alive.py:94-99  ensure_workers reads its own flag, without a lock
EnsureWorkersCheck(s) ==
    /\ deployment = "webapp"
    /\ spc[s] = "idle"
    /\ ~WORKER_STARTED
    /\ spc' = [spc EXCEPT ![s] = "ew_call"]
    /\ sarg' = [sarg EXCEPT ![s] = EnsureWorkersArg]
    /\ UNCHANGED <<chatSide, deployment, lastSubmit, pureVars, worker_started, worker_lock, WORKER_STARTED, spawnCalls,
                   queueVars, workerVars, lastPoll>>

\* job_queue.py:55  a direct call start_worker_once(process_fn, n)
StartWorkerOnceCall(s, n) ==
    /\ deployment = "webapp"
    /\ spc[s] = "idle"
    /\ spc' = [spc EXCEPT ![s] = "sw_call"]
    /\ sarg' = [sarg EXCEPT ![s] = n]
    /\ UNCHANGED <<chatSide, deployment, lastSubmit, pureVars, worker_started, worker_lock, WORKER_STARTED, spawnCalls,
                   queueVars, workerVars, lastPoll>>

\* a with-statement that does not exclude other threads
LockIgnored(s) == TRUE

\* job_queue.py:65  "with _worker_lock:" is entered only while the lock is free
LockAvailable(s) == worker_lock = 0

StartWorkerOnceAcquire(s) ==
    /\ spc[s] \in {"ew_call", "sw_call"}
    /\ LockAvailable(s)
    /\ worker_lock' = s
    /\ spc' = [spc EXCEPT ![s] = Stage(@, "locked")]
    /\ UNCHANGED <<chatSide, deployment, lastSubmit, pureVars, worker_started, WORKER_STARTED, sarg, spawnCalls,
                   queueVars, workerVars, lastPoll>>

\* job_queue.py:66-73  already started: leave the with-block and return;
\* otherwise make the thread count sane
StartWorkerOnceCheck(s) ==
    /\ spc[s] \in {"ew_locked", "sw_locked"}
    /\ IF worker_started
         THEN /\ worker_lock' = 0
              /\ spc' = [spc EXCEPT ![s] = AfterStart(@)]
              /\ sarg' = [sarg EXCEPT ![s] = 0]
         ELSE /\ sarg' = [sarg EXCEPT ![s] = ClampWorkers(@)]
              /\ spc' = [spc EXCEPT ![s] = Stage(@, "spawn")]
              /\ UNCHANGED worker_lock
    /\ UNCHANGED <<chatSide, deployment, lastSubmit, pureVars, worker_started, WORKER_STARTED, spawnCalls,
                   queueVars, workerVars, lastPoll>>

\* job_queue.py:75-82  the threads are created and started
StartWorkerOnceSpawn(s) ==
    /\ spc[s] \in {"ew_spawn", "sw_spawn"}
    /\ SpawnWorkers(sarg[s])
    /\ spc' = [spc EXCEPT ![s] = Stage(@, "flag")]
    /\ UNCHANGED <<chatSide, deployment, lastSubmit, pureVars, worker_started, worker_lock, WORKER_STARTED, sarg,
                   getCount, callCount, queueVars, lastPoll>>

\* job_queue.py:84  _worker_started = True, then the with-block is left
StartWorkerOnceSetStarted(s) ==
    /\ spc[s] \in {"ew_flag", "sw_flag"}
    /\ worker_started' = TRUE
    /\ worker_lock' = 0
    /\ spc' = [spc EXCEPT ![s] = AfterStart(@)]
    /\ sarg' = [sarg EXCEPT ![s] = 0]
    /\ UNCHANGED <<chatSide, deployment, lastSubmit, pureVars, WORKER_STARTED, spawnCalls, queueVars, workerVars, lastPoll>>

\* keep_alive.py:101  _WORKER_STARTED = True
EnsureWorkersSetFlag(s) ==
    /\ spc[s] = "ew_set"
    /\ WORKER_STARTED' = TRUE
    /\ spc' = [spc EXCEPT ![s] = "idle"]
    /\ UNCHANGED <<chatSide, deployment, lastSubmit, pureVars, worker_started, worker_lock, sarg, spawnCalls,
                   queueVars, workerVars, lastPoll>>

(* ------------------------------ worker loop --------------------------- *)
Workers == DOMAIN wpc

\* a get that reads the head of the FIFO without removing it
WorkerGetPeek(w) ==
    /\ wpc[w] = "get"
    /\ job_queue # <<>>
    /\ jobs[Head(job_queue)].status = "queued"
    /\ getCount[Head(job_queue)] < 2
    /\ getCount' = [getCount EXCEPT ![Head(job_queue)] = @ + 1]
    /\ wjob' = [wjob EXCEPT ![w] = Head(job_queue)]
    /\ wpc' = [wpc EXCEPT ![w] = "mark"]
    /\ UNCHANGED <<chatSide, deployment, lastSubmit, pureVars, queueVars, wout, callCount, startVars, lastPoll>>

\* job_queue.py:95-99  blocking get; an id with no job dict is skipped
WorkerGet(w) ==
    /\ wpc[w] = "get"
    /\ job_queue # <<>>
    /\ LET id == Head(job_queue)
       IN  /\ job_queue' = Tail(job_queue)
           /\ getCount' = [getCount EXCEPT ![id] = @ + 1]
           /\ IF id \in DOMAIN jobs
                THEN /\ wjob' = [wjob EXCEPT ![w] = id]
                     /\ wpc' = [wpc EXCEPT ![w] = "mark"]
                ELSE UNCHANGED <<wjob, wpc>>
    /\ UNCHANGED <<chatSide, deployment, lastSubmit, pureVars, jobs, clock, allocated, returned, putCount, ipc, ijob, iarg,
                   wout, callCount, startVars, lastPoll>>

\* a worker that never marks the job as running
WorkerSetRunningSkip(w) ==
    /\ wpc[w] = "mark"
    /\ wpc' = [wpc EXCEPT ![w] = "call"]
    /\ UNCHANGED <<chatSide, deployment, lastSubmit, pureVars, queueVars, wjob, wout, getCount, callCount, startVars, lastPoll>>

\* job_queue.py:101  job["status"] = "running"
WorkerSetRunning(w) ==
    /\ wpc[w] = "mark"
    /\ jobs' = [jobs EXCEPT ![wjob[w]].status = "running"]
    /\ wpc' = [wpc EXCEPT ![w] = "call"]
    /\ UNCHANGED <<chatSide, deployment, lastSubmit, pureVars, job_queue, clock, allocated, returned, putCount, ipc, ijob, iarg,
                   wjob, wout, getCount, callCount, startVars, lastPoll>>

\* job_queue.py:103  result = process_fn(job["payload"]): returns or raises
WorkerProcess(w) ==
    /\ wpc[w] = "call"
    /\ LET r == ProcessSubmissionJob(jobs[wjob[w]].payload)
       IN  /\ wout' = [wout EXCEPT ![w] = r.value]
           /\ wpc' = [wpc EXCEPT ![w] = IF r.raised THEN "except" ELSE "result"]
    /\ callCount' = [callCount EXCEPT ![wjob[w]] = @ + 1]
    /\ UNCHANGED <<chatSide, deployment, lastSubmit, pureVars, queueVars, wjob, getCount, startVars, lastPoll>>

\* job_queue.py:104  job["result"] = result
WorkerSetResult(w) ==
    /\ wpc[w] = "result"
    /\ jobs' = [jobs EXCEPT ![wjob[w]].result = wout[w]]
    /\ wpc' = [wpc EXCEPT ![w] = "done"]
    /\ UNCHANGED <<chatSide, deployment, lastSubmit, pureVars, job_queue, clock, allocated, returned, putCount, ipc, ijob, iarg,
                   wjob, wout, getCount, callCount, startVars, lastPoll>>

\* a loop that the exception of process_fn leaves
AfterJobDies(w) == IF wpc[w] = "error" THEN "dead" ELSE "get"

\* job_queue.py:94,106-110  the exception is handled inside the loop body:
\* after the try statement the loop takes the next id, whatever the outcome
AfterJob(w) == "get"

\* a worker that stores the result but never sets the status to done
WorkerSetDoneForgets(w) ==
    /\ wpc[w] = "done"
    /\ wpc' = [wpc EXCEPT ![w] = "get"]
    /\ wjob' = [wjob EXCEPT ![w] = 0]
    /\ wout' = [wout EXCEPT ![w] = None]
    /\ UNCHANGED <<chatSide, deployment, lastSubmit, pureVars, queueVars, getCount, callCount, startVars, lastPoll>>

\* job_queue.py:105,110  job["status"] = "done"; task_done(); next iteration
WorkerSetDone(w) ==
    /\ wpc[w] = "done"
    /\ jobs' = [jobs EXCEPT ![wjob[w]].status = "done"]
    /\ wpc' = [wpc EXCEPT ![w] = AfterJob(w)]
    /\ wjob' = [wjob EXCEPT ![w] = 0]
    /\ wout' = [wout EXCEPT ![w] = None]
    /\ UNCHANGED <<chatSide, deployment, lastSubmit, pureVars, job_queue, clock, allocated, returned, putCount, ipc, ijob, iarg,
                   getCount, callCount, startVars, lastPoll>>

\* job_queue.py:106-107  except Exception as e: job["error"] = str(e)
WorkerSetError(w) ==
    /\ wpc[w] = "except"
    /\ jobs' = [jobs EXCEPT ![wjob[w]].error = wout[w]]
    /\ wpc' = [wpc EXCEPT ![w] = "error"]
    /\ UNCHANGED <<chatSide, deployment, lastSubmit, pureVars, job_queue, clock, allocated, returned, putCount, ipc, ijob, iarg,
                   wjob, wout, getCount, callCount, startVars, lastPoll>>

\* job_queue.py:108,110  job["status"] = "error"; task_done(); next iteration
WorkerSetStatusError(w) ==
    /\ wpc[w] = "error"
    /\ jobs' = [jobs EXCEPT ![wjob[w]].status = "error"]
    /\ wpc' = [wpc EXCEPT ![w] = AfterJob(w)]
    /\ wjob' = [wjob EXCEPT ![w] = 0]
    /\ wout' = [wout EXCEPT ![w] = None]
    /\ UNCHANGED <<chatSide, deployment, lastSubmit, pureVars, job_queue, clock, allocated, returned, putCount, ipc, ijob, iarg,
                   getCount, callCount, startVars, lastPoll>>

(* ----------------------------- rating ledger -------------------------- *)
\* chat users
Users == {1}
\* the problem store: id -> level (read-only); an id outside it is not found
ProblemLevel(pid) == IF pid = 1 THEN "Easy" ELSE "Hard"
ChatProblemIds == {1, 2}
UnknownPid == Cardinality(ChatProblemIds) + 1

\* user_utils.py:22-27  LEVEL_RATING.get(level, 0)
LevelRating(level) ==
    CASE level = "Easy" -> 5
      [] level = "Medium" -> 10
      [] level = "Medium++" -> 15
      [] level = "Hard" -> 20
      [] OTHER -> 0

Accepted == "Accepted"

\* user_utils.py:65-73  the document ensure_user_initialized inserts
ZeroUser ==
    [registered |-> FALSE, rating |-> 0, submission_count |-> 0, total_rating |-> 0,
     submissions |-> <<>>, accepted_problems |-> <<>>, wrong_problems |-> <<>>]

\* user_utils.py:36-57  register_user inserts the same document with a
\* username, a gmail and registered_at
RegisteredUser == [ZeroUser EXCEPT !.registered = TRUE]

Contains(seq, x) == \E i \in 1..Len(seq) : seq[i] = x

\* user_utils.py:61-73  ensure_user_initialized
EnsureUserInitialized(db, u) == IF u \in DOMAIN db THEN db ELSE (u :> ZeroUser) @@ db

\* user_utils.py:123-129  save_submission
SaveSubmission(db, u, submission) ==
    LET d == EnsureUserInitialized(db, u)
    IN  [d EXCEPT ![u].submissions = Append(@, submission)]

\* an update that awards the points whatever the user has solved before
UpdateDocAlwaysAwards(user, level, pid, submission, verdict) ==
    [inc_count |-> 1,
     inc_rating |-> IF verdict = Accepted THEN LevelRating(level) ELSE 0,
     push_accepted |-> IF verdict = Accepted THEN <<pid>> ELSE <<>>,
     push_wrong |-> IF verdict # Accepted /\ ~Contains(user.accepted_problems, pid)
                        /\ ~Contains(user.wrong_problems, pid) THEN <<pid>> ELSE <<>>,
     push_sub |-> <<submission>>]

\* an update that takes a point away for every verdict that is not Accepted
UpdateDocPenalises(user, level, pid, submission, verdict) ==
    [inc_count |-> 1,
     inc_rating |-> IF verdict # Accepted THEN 0 - 1
                    ELSE IF Contains(user.accepted_problems, pid) THEN 0 ELSE LevelRating(level),
     push_accepted |-> IF verdict = Accepted /\ ~Contains(user.accepted_problems, pid)
                         THEN <<pid>> ELSE <<>>,
     push_wrong |-> IF verdict # Accepted /\ ~Contains(user.accepted_problems, pid)
                        /\ ~Contains(user.wrong_problems, pid) THEN <<pid>> ELSE <<>>,
     push_sub |-> <<submission>>]

\* an update that pushes the problem to wrong_problems for every verdict that
\* is not Accepted
UpdateDocAlwaysWrong(user, level, pid, submission, verdict) ==
    [inc_count |-> 1,
     inc_rating |-> IF verdict = Accepted /\ ~Contains(user.accepted_problems, pid)
                      THEN LevelRating(level) ELSE 0,
     push_accepted |-> IF verdict = Accepted /\ ~Contains(user.accepted_problems, pid)
                         THEN <<pid>> ELSE <<>>,
     push_wrong |-> IF verdict # Accepted THEN <<pid>> ELSE <<>>,
     push_sub |-> <<submission>>]

\* user_utils.py:79-99  the update document computed from the user document
\* that find_one returned
UpdateDoc(user, level, pid, submission, verdict) ==
    LET points == LevelRating(level)
        already_accepted == Contains(user.accepted_problems, pid)
        already_wrong == Contains(user.wrong_problems, pid)
    IN  [inc_count |-> 1,
         inc_rating |-> IF verdict = Accepted /\ ~already_accepted THEN points ELSE 0,
         push_accepted |-> IF verdict = Accepted /\ ~already_accepted THEN <<pid>> ELSE <<>>,
         push_wrong |-> IF verdict # Accepted /\ ~already_accepted /\ ~already_wrong
                          THEN <<pid>> ELSE <<>>,
         push_sub |-> <<submission>>]

\* an update whose $push replaces the accepted list ($set) instead of appending
ApplyUpdateOverwrites(db, u, doc) ==
    IF u \notin DOMAIN db THEN db
    ELSE [db EXCEPT ![u] =
            [@ EXCEPT !.submission_count = @ + doc.inc_count,
                      !.rating = @ + doc.inc_rating,
                      !.total_rating = @ + doc.inc_rating,
                      !.accepted_problems = IF doc.push_accepted = <<>> THEN @ ELSE doc.push_accepted,
                      !.wrong_problems = @ \o doc.push_wrong,
                      !.submissions = @ \o doc.push_sub]]

\* user_utils.py:101  users_col.update_one({"_id": user_id}, update_doc):
\* $inc and $push are applied to the stored document in one atomic operation
ApplyUpdate(db, u, doc) ==
    IF u \notin DOMAIN db THEN db
    ELSE [db EXCEPT ![u] =
            [@ EXCEPT !.submission_count = @ + doc.inc_count,
                      !.rating = @ + doc.inc_rating,
                      !.total_rating = @ + doc.inc_rating,
                      !.accepted_problems = @ \o doc.push_accepted,
                      !.wrong_problems = @ \o doc.push_wrong,
                      !.submissions = @ \o doc.push_sub]]

\* user_utils.py:75-101  update_user_rating, a whole call
UpdateUserRating(db, u, level, pid, submission, verdict) ==
    LET d == EnsureUserInitialized(db, u)
    IN  ApplyUpdate(d, u, UpdateDoc(d[u], level, pid, submission, verdict))

\* history: one update_user_rating call and the user's document around it
Application(u, pid, verdict, before, after) ==
    [user |-> u, pid |-> pid, verdict |-> verdict, before |-> before, after |-> after]
Remember(log, a) == IF Len(log) < 2 THEN Append(log, a) ELSE <<log[2], a>>

(* ------------------- update_user_rating, step by step ------------------ *)
\* Processes that share the users collection (the bot started by my_bot.py,
\* the bot thread of each keep_alive process) each run update_user_rating;
\* between two store operations of one call, another call may run.
Clients == 1..NumClients

TotalBegun == LET RECURSIVE Sum(_)
                  Sum(S) == IF S = {} THEN 0
                            ELSE LET u == CHOOSE x \in S : TRUE
                                 IN  callsBegun[u] + Sum(S \ {u})
              IN  Sum(Users)

\* user_utils.py:75-77  the call begins
LedgerBegin(c, u, pid, verdict) ==
    /\ deployment = "bot"
    /\ lpc[c] = "idle"
    /\ TotalBegun < MaxCalls
    /\ larg' = [larg EXCEPT ![c] = [user |-> u, pid |-> pid, verdict |-> verdict]]
    /\ callsBegun' = [callsBegun EXCEPT ![u] = @ + 1]
    /\ lpc' = [lpc EXCEPT ![c] = "ensure_find"]
    /\ UNCHANGED <<jobSide, chatVars, users, applied, lread, callsAborted, deployment, lastSubmit, pureVars>>

\* user_utils.py:63-64  ensure_user_initialized: find_one, "if not user"
LedgerEnsureFind(c) ==
    /\ lpc[c] = "ensure_find"
    /\ lpc' = [lpc EXCEPT ![c] = IF larg[c].user \in DOMAIN users THEN "find" ELSE "ensure_insert"]
    /\ UNCHANGED <<jobSide, chatVars, users, applied, larg, lread, callsBegun, callsAborted,
                   deployment, lastSubmit, pureVars>>

\* user_utils.py:65-73  insert_one; _id is unique, so inserting a document
\* that another call has inserted meanwhile raises DuplicateKeyError, which
\* ends the call
LedgerEnsureInsert(c) ==
    /\ lpc[c] = "ensure_insert"
    /\ IF larg[c].user \in DOMAIN users
         THEN /\ callsAborted' = callsAborted + 1
              /\ lpc' = [lpc EXCEPT ![c] = "idle"]
              /\ larg' = [larg EXCEPT ![c] = None]
              /\ UNCHANGED users
         ELSE /\ users' = (larg[c].user :> ZeroUser) @@ users
              /\ lpc' = [lpc EXCEPT ![c] = "find"]
              /\ UNCHANGED <<larg, callsAborted>>
    /\ UNCHANGED <<jobSide, chatVars, applied, lread, callsBegun, deployment, lastSubmit, pureVars>>

\* user_utils.py:80-82  user = users_col.find_one({"_id": user_id})
LedgerFind(c) ==
    /\ lpc[c] = "find"
    /\ lread' = [lread EXCEPT ![c] = users[larg[c].user]]
    /\ lpc' = [lpc EXCEPT ![c] = "update"]
    /\ UNCHANGED <<jobSide, chatVars, users, applied, larg, callsBegun, callsAborted,
                   deployment, lastSubmit, pureVars>>

\* user_utils.py:84-101  update_doc is built from the document read, then
\* update_one applies it to the document stored now
LedgerUpdate(c) ==
    /\ lpc[c] = "update"
    /\ LET a == larg[c]
           submission == [problem_id |-> a.pid, verdict |-> a.verdict, lang |-> "py"]
           doc == UpdateDoc(lread[c], ProblemLevel(a.pid), a.pid, submission, a.verdict)
       IN  /\ users' = ApplyUpdate(users, a.user, doc)
           /\ applied' = Remember(applied,
                            Application(a.user, a.pid, a.verdict, lread[c], users'[a.user]))
    /\ lpc' = [lpc EXCEPT ![c] = "idle"]
    /\ larg' = [larg EXCEPT ![c] = None]
    /\ lread' = [lread EXCEPT ![c] = None]
    /\ UNCHANGED <<jobSide, chatVars, callsBegun, callsAborted, deployment, lastSubmit, pureVars>>

(* -------------------------------- chat path --------------------------- *)
\* handlers/submit.py:78-95  judge_code: the verdict string, classified
RECURSIVE JudgeCodeFrom(_, _, _)
JudgeCodeFrom(lang, code, tc) ==
    IF tc > NumTests THEN Accepted
    ELSE LET result == RunCode(lang, code, tc)
         IN  IF IsFailure(result) THEN result
             ELSE IF result # "out_ok" THEN "WrongAnswer"
             ELSE JudgeCodeFrom(lang, code, tc + 1)
JudgeCode(lang, code) == JudgeCodeFrom(lang, code, 1)

\* user_utils.py:36-57 register_user, reached from /register
RegisterCmd(u) ==
    /\ deployment = "bot"
    /\ u \notin DOMAIN users
    /\ users' = (u :> RegisteredUser) @@ users
    /\ UNCHANGED <<jobSide, chatVars, applied, clientVars, deployment, lastSubmit, pureVars>>

\* handlers/submit.py:97-124  /submit <pid> <lang>
SubmitCmd(u, pid, lang) ==
    /\ deployment = "bot"
    /\ IF /\ u \in DOMAIN users /\ users[u].registered
          /\ lang \in {"py", "c", "cpp", "java"}
          /\ pid \in ChatProblemIds
         THEN pending_submissions' = (u :> [pid |-> pid, lang |-> lang]) @@ pending_submissions
         ELSE UNCHANGED pending_submissions
    /\ UNCHANGED <<jobSide, ledgerVars, submission_queue, jpc, jsub, subCount,
                   raisedSubs, handledSubs, deployment, lastSubmit, pureVars>>

\* a handler that reads the pending entry without popping it
HandleCodeKeepsPending(u, code) ==
    /\ deployment = "bot"
    /\ subCount < MaxSubs
    /\ IF u \in DOMAIN pending_submissions
         THEN /\ submission_queue' = Append(submission_queue,
                    [id |-> subCount + 1, user_id |-> u, code |-> code,
                     lang |-> pending_submissions[u].lang, pid |-> pending_submissions[u].pid])
              /\ subCount' = subCount + 1
              /\ UNCHANGED pending_submissions
         ELSE UNCHANGED <<pending_submissions, submission_queue, subCount>>
    /\ UNCHANGED <<jobSide, ledgerVars, jpc, jsub, raisedSubs, handledSubs, deployment, lastSubmit, pureVars>>

\* handlers/submit.py:126-146  a text message: the code of a pending submission
HandleCode(u, code) ==
    /\ deployment = "bot"
    /\ subCount < MaxSubs
    /\ IF u \in DOMAIN pending_submissions
         THEN /\ pending_submissions' =
                    [v \in DOMAIN pending_submissions \ {u} |-> pending_submissions[v]]
              /\ submission_queue' = Append(submission_queue,
                    [id |-> subCount + 1, user_id |-> u, code |-> code,
                     lang |-> pending_submissions[u].lang, pid |-> pending_submissions[u].pid])
              /\ subCount' = subCount + 1
         ELSE UNCHANGED <<pending_submissions, submission_queue, subCount>>
    /\ UNCHANGED <<jobSide, ledgerVars, jpc, jsub, raisedSubs, handledSubs, deployment, lastSubmit, pureVars>>

\* my_bot.py:50-53  start_workers: three judge_worker tasks on the event loop
StartJudgeWorkers ==
    /\ deployment = "bot"
    /\ jpc = <<>>
    /\ jpc' = [k \in 1..JudgeWorkerCount |-> "get"]
    /\ jsub' = [k \in 1..JudgeWorkerCount |-> None]
    /\ UNCHANGED <<jobSide, ledgerVars, pending_submissions, submission_queue, subCount,
                   raisedSubs, handledSubs, deployment, lastSubmit, pureVars>>

JudgeWorkers == DOMAIN jpc

\* handlers/submit.py:166  submission = await submission_queue.get()
JudgeWorkerGet(k) ==
    /\ jpc[k] = "get"
    /\ submission_queue # <<>>
    /\ jsub' = [jsub EXCEPT ![k] = Head(submission_queue)]
    /\ submission_queue' = Tail(submission_queue)
    /\ jpc' = [jpc EXCEPT ![k] = "process"]
    /\ UNCHANGED <<jobSide, ledgerVars, pending_submissions, subCount, raisedSubs,
                   handledSubs, deployment, lastSubmit, pureVars>>

\* handlers/submit.py:164-178  the try statement is inside "while True": after
\* it, with or without an exception, the loop awaits the next submission
AfterSubmission(raised) == "get"

\* handlers/submit.py:148-162  process_submission once judge_code has
\* returned: the ledger calls run without an await between them, so no other
\* task of the event loop runs in between.  failAt names the store call that
\* raises (the store is a network service), "none" when all succeed.
ProcessSubmission(k, failAt) ==
    /\ jpc[k] = "process"
    /\ LET sub == jsub[k]
           u == sub.user_id
           verdict == JudgeCode(sub.lang, sub.code)
           submission_record == [problem_id |-> sub.pid, verdict |-> verdict, lang |-> sub.lang]
           saved == SaveSubmission(EnsureUserInitialized(users, u), u, submission_record)
           rated == UpdateUserRating(saved, u, ProblemLevel(sub.pid), sub.pid,
                                     submission_record, verdict)
       IN  /\ users' = CASE failAt = "none" -> rated
                         [] failAt = "update_user_rating" -> saved
                         [] OTHER -> users
           /\ applied' = IF failAt = "none"
                           THEN Remember(applied,
                                    Application(u, sub.pid, verdict, saved[u], rated[u]))
                           ELSE applied
           /\ raisedSubs' = IF failAt = "none" THEN raisedSubs ELSE raisedSubs \cup {sub.id}
           /\ handledSubs' = handledSubs \cup {sub.id}
    /\ jpc' = [jpc EXCEPT ![k] = AfterSubmission(failAt # "none")]
    /\ jsub' = [jsub EXCEPT ![k] = None]
    /\ UNCHANGED <<jobSide, pending_submissions, submission_queue, subCount, clientVars,
                   deployment, lastSubmit, pureVars>>

FailPoints == {"none", "ensure_user_initialized", "update_user_rating"}

(* ------------------------ the orchestrator loops ----------------------- *)
\* What run_code yields for one test case, classified as in RunCode.
RunnerOutcomes == {"out_ok", "out_bad", "timeout", "runtime", "compile", "unsupported"}

RECURSIVE SeqsUpTo(_, _)
\* all sequences over S of length at most n
SeqsUpTo(S, n) ==
    IF n = 0 THEN {<<>>}
    ELSE LET shorter == SeqsUpTo(S, n - 1)
         IN  shorter \cup {Append(q, x) : q \in {r \in shorter : Len(r) = n - 1}, x \in S}

\* a problem's test cases, each with the outcome the Runner has for it
TestRuns == SeqsUpTo(RunnerOutcomes, MaxTests)

\* a loop that goes on with the next test case after a return statement
ReturnedIgnored(verdict) == FALSE

\* a return statement inside the for loop ends the loop: verdict is the value
\* returned so far, None while no return statement was reached
Returned(verdict) == verdict # None

\* handlers/submit.py:80-93  one iteration of judge_code: the value returned
\* in it, None when the iteration falls through to the next test case
JudgeCodeTest(result, tc) ==
    IF IsFailure(result) THEN [kind |-> result, tc |-> tc]
    ELSE IF result # "out_ok" THEN [kind |-> "WrongAnswer", tc |-> tc]
    ELSE None

RECURSIVE JudgeCodeLoop(_, _, _, _)
\* handlers/submit.py:78-95  judge_code over the Runner outcomes outs, from
\* test case tc on; calls are the test cases run_code_async was awaited for
JudgeCodeLoop(outs, tc, calls, verdict) ==
    IF tc > Len(outs) \/ Returned(verdict)
      THEN [raised |-> FALSE, calls |-> calls,
            verdict |-> IF verdict = None THEN [kind |-> Accepted, tc |-> 0] ELSE verdict]
      ELSE JudgeCodeLoop(outs, tc + 1, Append(calls, tc), JudgeCodeTest(outs[tc], tc))

\* keep_alive.py:58-74  one iteration of the loop of _process_submission_job
ProcessJobTest(out, tc) ==
    IF IsFailure(out) THEN [kind |-> out, tc |-> tc]
    ELSE IF out # "out_ok" THEN [kind |-> "WA", tc |-> tc]
    ELSE None

RECURSIVE ProcessJobLoop(_, _, _, _)
\* keep_alive.py:57-80  the loop of _process_submission_job and what follows
\* it: when no iteration returned, user_utils.update_user_score is called,
\* which user_utils does not define (AttributeError)
ProcessJobLoop(outs, tc, calls, verdict) ==
    IF tc > Len(outs) \/ Returned(verdict)
      THEN IF verdict = None
             THEN [raised |-> TRUE, calls |-> calls, verdict |-> None]
             ELSE [raised |-> FALSE, calls |-> calls, verdict |-> verdict]
      ELSE ProcessJobLoop(outs, tc + 1, Append(calls, tc), ProcessJobTest(outs[tc], tc))

\* handlers/submit.py:149  verdict = await judge_code(code, lang, prob)
JudgeCodeCall ==
    /\ deployment = "bot"
    /\ overdict = None
    /\ LET r == JudgeCodeLoop(otests, 1, <<>>, None)
       IN  /\ ocalls' = r.calls
           /\ overdict' = [raised |-> r.raised, verdict |-> r.verdict]
    /\ UNCHANGED <<jobSide, chatSide, deployment, lastSubmit, otests, compareVars, moreVars>>

\* job_queue.py:103  process_fn(job["payload"]) with _process_submission_job
ProcessJobCall ==
    /\ deployment = "webapp"
    /\ overdict = None
    /\ LET r == ProcessJobLoop(otests, 1, <<>>, None)
       IN  /\ ocalls' = r.calls
           /\ overdict' = [raised |-> r.raised, verdict |-> r.verdict]
    /\ UNCHANGED <<jobSide, chatSide, deployment, lastSubmit, otests, compareVars, moreVars>>

(* ------------------------------ comparator ---------------------------- *)
\* An output text is the sequence of its lines, the pieces between newline
\* characters (at least one; "a\n" is <<"a", "">>).  Lines are drawn from a
\* small alphabet: the empty line, a line of one space, "a", and "b" followed
\* by a space.
RawLines == {"", " ", "a", "b "}
Texts == SeqsUpTo(RawLines, MaxLines) \ {<<>>}

\* str.lstrip / str.rstrip / str.strip on a line of the alphabet
LStrip(line) == IF line = " " THEN "" ELSE line
RStrip(line) == IF line = " " THEN "" ELSE IF line = "b " THEN "b" ELSE line
Strip(line) == LStrip(RStrip(line))
NonEmpty(line) == line # ""

RECURSIVE DropBlankHead(_)
DropBlankHead(lines) ==
    IF lines = <<>> THEN <<>>
    ELSE IF Strip(Head(lines)) = "" THEN DropBlankHead(Tail(lines))
    ELSE lines

RECURSIVE DropBlankLast(_)
DropBlankLast(lines) ==
    IF lines = <<>> THEN <<>>
    ELSE IF Strip(lines[Len(lines)]) = "" THEN DropBlankLast(SubSeq(lines, 1, Len(lines) - 1))
    ELSE lines

\* text.strip(): white space, newlines included, is removed at both ends of
\* the text; <<>> stands for the empty text
TextStrip(text) ==
    LET t == DropBlankLast(DropBlankHead(text))
    IN  [i \in 1..Len(t) |->
            IF i = 1 /\ i = Len(t) THEN Strip(t[i])
            ELSE IF i = 1 THEN LStrip(t[i])
            ELSE IF i = Len(t) THEN RStrip(t[i])
            ELSE t[i]]

\* text.split('\n'): the empty text gives one empty line
SplitNewline(text) == IF text = <<>> THEN <<"">> ELSE text
\* text.splitlines(): the empty text gives no line
SplitLines(text) == text

\* [x for x in lines if x.strip()]: blank lines dropped, the others as they are
NotBlank(line) == Strip(line) # ""
FilteredNotStripped(lines) == SelectSeq(lines, NotBlank)

\* [x.strip() for x in lines if x.strip()]
StrippedNonBlank(lines) == SelectSeq([i \in 1..Len(lines) |-> Strip(lines[i])], NonEmpty)

\* handlers/submit.py:66-67  normalize_output
NormalizeOutput(text) == StrippedNonBlank(SplitNewline(TextStrip(text)))

\* the order of str on the stripped lines of the alphabet ("a" < "b")
LineLess(x, y) == x = "a" /\ y = "b"

RECURSIVE InsertLine(_, _)
InsertLine(sorted, x) ==
    IF sorted = <<>> THEN <<x>>
    ELSE IF LineLess(x, Head(sorted)) THEN <<x>> \o sorted
    ELSE <<Head(sorted)>> \o InsertLine(Tail(sorted), x)

RECURSIVE SortedSet(_)
\* sorted(set(lines)): the distinct lines in order
SortedSet(lines) ==
    IF lines = <<>> THEN <<>>
    ELSE LET rest == SortedSet(SubSeq(lines, 1, Len(lines) - 1))
             x == lines[Len(lines)]
         IN  IF \E i \in 1..Len(rest) : rest[i] = x THEN rest ELSE InsertLine(rest, x)

RECURSIVE Sorted(_)
\* sorted(lines)
Sorted(lines) ==
    IF lines = <<>> THEN <<>>
    ELSE InsertLine(Sorted(SubSeq(lines, 1, Len(lines) - 1)), lines[Len(lines)])

\* handlers/submit.py:69-76  compare_outputs
CompareOutputs(expected, result, allow_unordered) ==
    LET expected_lines == NormalizeOutput(expected)
        result_lines == NormalizeOutput(result)
    IN  IF allow_unordered
          THEN Sorted(expected_lines) = Sorted(result_lines)
          ELSE expected_lines = result_lines

\* keep_alive.py:64-74  the comparison inside _process_submission_job: TRUE
\* when the test case passes
JobCompare(tc_output, out, allow_unordered) ==
    LET expected == TextStrip(tc_output)
        actual == TextStrip(out)
    IN  IF allow_unordered
          THEN Sorted(StrippedNonBlank(SplitLines(expected)))
                  = Sorted(StrippedNonBlank(SplitLines(actual)))
          ELSE expected = actual

\* the text is one that run_code returns as output: stdout after .strip()
IsRunnerOutput(text) == TextStrip(text) = text

\* the four comparisons of the expected text with the actual text
Comparisons(expected, actual) ==
    [chat_unordered |-> CompareOutputs(expected, actual, TRUE),
     chat_ordered |-> CompareOutputs(expected, actual, FALSE),
     job_unordered |-> JobCompare(expected, actual, TRUE),
     job_ordered |-> JobCompare(expected, actual, FALSE)]

\* the comparator is applied to the expected and the actual text
CompareCall ==
    /\ cres = None
    /\ cres' = Comparisons(cexp, cact)
    /\ UNCHANGED <<jobSide, chatSide, deployment, lastSubmit, judgeVars, cexp, cact, moreVars>>

\* the program prints the same lines with lines i and j exchanged, and the
\* comparator is applied again
ComparePermuted(i, j) ==
    /\ cres # None
    /\ i < j /\ j <= Len(cact)
    /\ cact[i] # cact[j]
    /\ cact' = [cact EXCEPT ![i] = cact[j], ![j] = cact[i]]
    /\ cres' = Comparisons(cexp, cact')
    /\ UNCHANGED <<jobSide, chatSide, deployment, lastSubmit, judgeVars, cexp, moreVars>>

\* '\n'.join(lines) for lines that hold no newline: the text whose lines
\* they are; no line at all gives the empty text
JoinNewline(lines) == lines

\* every variable outside normVars
exceptNorm == <<jobSide, chatSide, deployment, lastSubmit, judgeVars, compareVars, rankVars, flagVars,
                runVars, apiVars>>

\* handlers/submit.py:66-67  normalize_output(ntext)
NormalizeCall ==
    /\ nlines = None
    /\ nlines' = [lines |-> NormalizeOutput(ntext)]
    /\ UNCHANGED <<exceptNorm, ntext>>

\* handlers/submit.py:86-87  the lines normalize_output returned are joined
\* with newlines, and the joined text is normalized
NormalizeJoined ==
    /\ nlines # None
    /\ ntext # JoinNewline(nlines.lines)
    /\ ntext' = JoinNewline(nlines.lines)
    /\ nlines' = [lines |-> NormalizeOutput(ntext')]
    /\ UNCHANGED exceptNorm

(* ------------------ the flag handed to the comparison ----------------- *)
\* handlers/submit.py:149  process_submission calls judge_code(code, lang,
\* prob): the parameter allow_unordered_output takes its default (line 78)
ProcessSubmissionFlag(allow_unordered_output) == FALSE

\* keep_alive.py:55  allow_unordered = bool(prob.get("allow_unordered_output",
\* False))
JobFlag(allow_unordered_output) == allow_unordered_output

\* every variable outside flagVars and the texts
exceptFlag == <<jobSide, chatSide, deployment, lastSubmit, judgeVars, cres, normVars, rankVars,
                runVars, apiVars>>

\* handlers/submit.py:148-149, 85  the chat path judges a test case with
\* expected output cexp for which run_code returned cact
ChatJudgeText ==
    /\ deployment = "bot"
    /\ fres = None
    /\ LET flag == ProcessSubmissionFlag(pflag)
       IN  fres' = [path |-> "chat", allow_unordered |-> flag,
                    match |-> CompareOutputs(cexp, cact, flag)]
    /\ UNCHANGED <<exceptFlag, cexp, cact, pflag>>

\* keep_alive.py:55-74  the Job path judges the same test case
JobJudgeText ==
    /\ deployment = "webapp"
    /\ fres = None
    /\ LET flag == JobFlag(pflag)
       IN  fres' = [path |-> "job", allow_unordered |-> flag,
                    match |-> JobCompare(cexp, cact, flag)]
    /\ UNCHANGED <<exceptFlag, cexp, cact, pflag>>

(* ------------------------ run_code, step by step ---------------------- *)
\* Strings are sequences of pieces.  The three signs the orchestrators test
\* for are pieces of their own:
WarnSign == "warning-sign"
ClockSign == "alarm-clock"
BangSign == "exclamation-mark"
Whitespace == {" ", "\n"}

\* handlers/submit.py:44, 54, 57, 59, 61  the strings run_code returns for
\* its failures (stderr and the exception texts are not told apart)
UnsupportedLanguage == <<BangSign, " Unsupported language.">>
RuntimeError == <<WarnSign, " Runtime Error:", "\n", "stderr">>
TimeLimitExceeded == <<ClockSign, " Time Limit Exceeded">>
CompileError == <<WarnSign, " Compilation Error:", "\n", "str(e)">>
InternalError == <<BangSign, " Error: ", "str(e)">>

RECURSIVE StrLStrip(_)
StrLStrip(str) ==
    IF str # <<>> /\ Head(str) \in Whitespace THEN StrLStrip(Tail(str)) ELSE str
RECURSIVE StrRStrip(_)
StrRStrip(str) ==
    IF str # <<>> /\ str[Len(str)] \in Whitespace
      THEN StrRStrip(SubSeq(str, 1, Len(str) - 1)) ELSE str
\* str.strip()
StrStrip(str) == StrLStrip(StrRStrip(str))

\* what a program can print: nothing, a number with a newline after it, and
\* a text that begins with one of the signs
Stdouts == { <<>>, <<"42", "\n">>, <<ClockSign, " Time Limit Exceeded">> }

\* the lang arguments: the four known tags and one other
RunLangs == SupportedLangs \cup {"rb"}
CompiledLangs == {"c", "cpp", "java"}

\* how a subprocess.run of the program ends within or at the limit
RunEnds ==
    {[kind |-> "timeout", stdout |-> <<>>]}
    \cup {[kind |-> "nonzero", stdout |-> <<>>]}
    \cup {[kind |-> "zero", stdout |-> out] : out \in Stdouts}

\* what a run_code call has done and met so far: directories made, files written,
\* processes started, how the compiler and the program ended, what the program
\* printed, whether another exception was raised
NoHistory ==
    [dirs |-> 0, files |-> 0, procs |-> 0, compile |-> "none", run |-> "none",
     stdout |-> <<>>, raised |-> FALSE]

\* every variable outside runVars
exceptRun == <<jobSide, chatSide, deployment, lastSubmit, judgeVars, compareVars, normVars,
               rankVars, flagVars, apiVars>>

\* a mkdtemp that returns any name
MkdtempAnyName(existing) == DirNames
\* tempfile.mkdtemp draws names until os.mkdir succeeds: the name it returns
\* is one no existing directory has
Mkdtemp(existing) == DirNames \ existing

\* TemporaryDirectory.__exit__: the directory and what it holds are removed
Cleanup(existing, dir) == existing \ {dir}

\* the call of caller c leaves the `with` block (and with it the scope of
\* tmpdir) and returns str
RunCodeReturn(c, str, hist) ==
    /\ fsdirs' = Cleanup(fsdirs, tmpdir[c])
    /\ tmpdir' = [tmpdir EXCEPT ![c] = 0]
    /\ rcret' = [rcret EXCEPT ![c] = str]
    /\ rchist' = [rchist EXCEPT ![c] = hist]
    /\ rcpc' = [rcpc EXCEPT ![c] = "returned"]
    /\ UNCHANGED <<rclang, rcverdict>>

\* handlers/submit.py:15-17  run_code(lang, ...) is called and enters the
\* `with tempfile.TemporaryDirectory() as tmpdir` block
RunCodeEnter(c, lang) ==
    /\ rcpc[c] = "idle"
    /\ \E name \in Mkdtemp(fsdirs) :
          /\ tmpdir' = [tmpdir EXCEPT ![c] = name]
          /\ fsdirs' = fsdirs \cup {name}
    /\ rclang' = [rclang EXCEPT ![c] = lang]
    /\ rchist' = [rchist EXCEPT ![c] = [NoHistory EXCEPT !.dirs = 1]]
    /\ rcret' = [rcret EXCEPT ![c] = <<>>]
    /\ rcverdict' = [rcverdict EXCEPT ![c] = None]
    /\ rcpc' = [rcpc EXCEPT ![c] = "with"]
    /\ UNCHANGED exceptRun

\* handlers/submit.py:18-44  the branch on lang: the source file is written
\* (and a compiler is due for c, cpp and java), or the call returns
\* "Unsupported language."
RunCodeWrite(c) ==
    /\ rcpc[c] = "with"
    /\ IF rclang[c] \in SupportedLangs
         THEN /\ rchist' = [rchist EXCEPT ![c].files = @ + 1]
              /\ rcpc' = [rcpc EXCEPT ![c] =
                            IF rclang[c] \in CompiledLangs THEN "compile" ELSE "run"]
              /\ UNCHANGED <<rclang, tmpdir, rcret, rcverdict, fsdirs>>
         ELSE RunCodeReturn(c, UnsupportedLanguage, rchist[c])
    /\ UNCHANGED exceptRun

\* for RunCodeCompile: a failed compilation is not noticed (check=False)
CompileFailedIgnored(exit) == FALSE
\* handlers/submit.py:28, 35, 41  check=True: a non-zero exit of the compiler
\* raises CalledProcessError
CompileFailed(exit) == exit # 0

\* handlers/submit.py:28, 35, 41, 58-59  the compiler runs and exits
RunCodeCompile(c, exit) ==
    /\ rcpc[c] = "compile"
    /\ LET hist == [rchist[c] EXCEPT !.procs = @ + 1,
                                     !.compile = IF exit = 0 THEN "zero" ELSE "nonzero"]
       IN  IF CompileFailed(exit)
             THEN RunCodeReturn(c, CompileError, hist)
             ELSE /\ rchist' = [rchist EXCEPT ![c] = hist]
                  /\ rcpc' = [rcpc EXCEPT ![c] = "run"]
                  /\ UNCHANGED <<rclang, tmpdir, rcret, rcverdict, fsdirs>>
    /\ UNCHANGED exceptRun

\* handlers/submit.py:46-57  the program runs with timeout=3
RunCodeRun(c, end) ==
    /\ rcpc[c] = "run"
    /\ LET hist == [rchist[c] EXCEPT !.procs = @ + 1, !.run = end.kind,
                                     !.stdout = end.stdout]
       IN  IF end.kind = "timeout" THEN RunCodeReturn(c, TimeLimitExceeded, hist)
           ELSE IF end.kind = "nonzero" THEN RunCodeReturn(c, RuntimeError, hist)
           ELSE RunCodeReturn(c, StrStrip(end.stdout), hist)
    /\ UNCHANGED exceptRun

\* handlers/submit.py:60-61  an exception that is neither TimeoutExpired nor
\* CalledProcessError is raised inside the `with` block (open or write fails,
\* the compiler or interpreter is not installed, stdout is not UTF-8)
RunCodeRaise(c) ==
    /\ rcpc[c] \in {"with", "compile", "run"}
    /\ RunCodeReturn(c, InternalError, [rchist[c] EXCEPT !.raised = TRUE])
    /\ UNCHANGED exceptRun

\* result.startswith(("\u26a0\ufe0f", "\u23f0", "\u2757")), the test both
\* orchestrators make: handlers/submit.py:82, keep_alive.py:61
StartsWithSign(str) == str # <<>> /\ Head(str) \in {WarnSign, ClockSign, BangSign}

\* what the orchestrator does with the string run_code returned
Classify(result) ==
    IF StartsWithSign(result) THEN [returned |-> TRUE, verdict |-> result, compared |-> FALSE]
    ELSE [returned |-> FALSE, verdict |-> <<>>, compared |-> TRUE]

\* handlers/submit.py:80-85  judge_code receives the result of run_code_async
JudgeCodeResult(c) ==
    /\ deployment = "bot"
    /\ rcpc[c] = "returned"
    /\ rcverdict' = [rcverdict EXCEPT ![c] = Classify(rcret[c])]
    /\ rcpc' = [rcpc EXCEPT ![c] = "judged"]
    /\ UNCHANGED <<exceptRun, rclang, tmpdir, rcret, rchist, fsdirs>>

\* keep_alive.py:58-65  _process_submission_job receives the result of run_code
ProcessJobResult(c) ==
    /\ deployment = "webapp"
    /\ rcpc[c] = "returned"
    /\ rcverdict' = [rcverdict EXCEPT ![c] = Classify(rcret[c])]
    /\ rcpc' = [rcpc EXCEPT ![c] = "judged"]
    /\ UNCHANGED <<exceptRun, rclang, tmpdir, rcret, rchist, fsdirs>>

\* the orchestrator goes on (the next test case, or the next submission)
RunCodeNext(c) ==
    /\ rcpc[c] = "judged"
    /\ rcpc' = [rcpc EXCEPT ![c] = "idle"]
    /\ rclang' = [rclang EXCEPT ![c] = ""]
    /\ rcret' = [rcret EXCEPT ![c] = <<>>]
    /\ rcverdict' = [rcverdict EXCEPT ![c] = None]
    /\ rchist' = [rchist EXCEPT ![c] = NoHistory]
    /\ UNCHANGED <<exceptRun, tmpdir, fsdirs>>

(* ---------------------- run with custom input: api_run ---------------- *)
\* every variable outside runVars and apiVars
exceptRunApi == <<jobSide, chatSide, deployment, lastSubmit, judgeVars, compareVars, normVars,
                  rankVars, flagVars>>

\* an api_run that records the run in the submissions of user 1
ApiRunRespondSaves(c) ==
    /\ deployment = "webapp"
    /\ rcpc[c] = "returned"
    /\ lastRun' = [status |-> 200, ok |-> TRUE, output |-> rcret[c], verdict |-> "OK"]
    /\ rcpc' = [rcpc EXCEPT ![c] = "idle"]
    /\ rclang' = [rclang EXCEPT ![c] = ""]
    /\ rcret' = [rcret EXCEPT ![c] = <<>>]
    /\ rchist' = [rchist EXCEPT ![c] = NoHistory]
    /\ users' = SaveSubmission(users, 1, [problem_id |-> 0, verdict |-> "OK", lang |-> rclang[c]])
    /\ UNCHANGED <<jobSide, chatVars, applied, clientVars, deployment, lastSubmit, judgeVars,
                   compareVars, normVars, rankVars, flagVars, tmpdir, rcverdict, fsdirs, answered>>

\* keep_alive.py:250-256  POST /api/run: the body is read and run_code(lang,
\* code, stdin) is called by request thread c -- the step that enters
\* run_code's `with` block
ApiRunCall(c, lang) ==
    /\ deployment = "webapp"
    /\ RunCodeEnter(c, lang)

\* keep_alive.py:256-257  run_code has returned: the response carries its
\* string as "output", with "verdict": "OK" whatever the outcome
ApiRunRespond(c) ==
    /\ deployment = "webapp"
    /\ rcpc[c] = "returned"
    /\ lastRun' = [status |-> 200, ok |-> TRUE, output |-> rcret[c], verdict |-> "OK"]
    /\ rcpc' = [rcpc EXCEPT ![c] = "idle"]
    /\ rclang' = [rclang EXCEPT ![c] = ""]
    /\ rcret' = [rcret EXCEPT ![c] = <<>>]
    /\ rchist' = [rchist EXCEPT ![c] = NoHistory]
    /\ UNCHANGED <<exceptRunApi, tmpdir, rcverdict, fsdirs, answered>>

\* keep_alive.py:250-252, 258-259  a body that is not a JSON object:
\* get_json or payload.get raises, and the except clause answers 400
ApiRunBadRequest ==
    /\ deployment = "webapp"
    /\ lastRun' = [status |-> 400, ok |-> FALSE, output |-> <<>>, verdict |-> ""]
    /\ lastRun' # lastRun
    /\ UNCHANGED <<exceptRunApi, runVars, answered>>

(* --------------------------- ranking listing -------------------------- *)
\* What a document holds as registered_at: a string in the format
\* "%Y-%m-%d %H:%M:%S" (the time it tells, as a number), a value that is not
\* in that format, or no such field.
Time(t) == [kind |-> "time", t |-> t]
Garbage == [kind |-> "text", t |-> 0]
Absent == [kind |-> "absent", t |-> 0]

\* A user document as the ranking reads it: rating, wrong_problems (its
\* length is all that is read) and registered_at.
RankUser(rating, wrong, registered_at) ==
    [rating |-> rating, wrong |-> wrong, registered_at |-> registered_at]
\* the kinds of user: two that differ in registration time only, one with a
\* wrong problem more, one with a lower rating
RankUsers ==
    <<RankUser(5, 0, Time(1)), RankUser(5, 0, Time(2)), RankUser(5, 1, Time(1)),
      RankUser(2, 0, Time(1))>>

\* handlers/rankings.py:24, 51  u.get("registered_at", "9999-12-31 23:59:59")
RegisteredAt(u) == IF u.registered_at = Absent THEN Time(DefaultTime) ELSE u.registered_at

\* a parse_time that puts what it cannot parse first (datetime.min)
ParseTimeMin(value) == IF value.kind = "time" THEN value.t ELSE 0
\* handlers/rankings.py:11-15  parse_time: datetime.max for what strptime
\* does not accept
ParseTime(value) == IF value.kind = "time" THEN value.t ELSE DatetimeMax

RECURSIVE Repeat(_, _)
Repeat(x, n) == IF n = 0 THEN <<>> ELSE <<x>> \o Repeat(x, n - 1)

\* a collection with count[k] users of kind k, stored from the last kind to
\* the first
Collection(count) ==
    Repeat(RankUsers[4], count[4]) \o Repeat(RankUsers[3], count[3])
        \o Repeat(RankUsers[2], count[2]) \o Repeat(RankUsers[1], count[1])
Collections == { Collection(count) : count \in [1..4 -> 0..MaxPerKind] }

\* handlers/rankings.py:21-25  the sort key (-rating, len(wrong_problems),
\* parse_time(registered_at)), compared as tuples
SortKeyLess(u, v) ==
    \/ u.rating > v.rating
    \/ u.rating = v.rating /\ u.wrong < v.wrong
    \/ /\ u.rating = v.rating /\ u.wrong = v.wrong
       /\ ParseTime(RegisteredAt(u)) < ParseTime(RegisteredAt(v))

RECURSIVE InsertUser(_, _)
InsertUser(sorted, u) ==
    IF sorted = <<>> THEN <<u>>
    ELSE IF SortKeyLess(u, Head(sorted)) THEN <<u>> \o sorted
    ELSE <<Head(sorted)>> \o InsertUser(Tail(sorted), u)

RECURSIVE GetSortedUsers(_)
\* handlers/rankings.py:17-27  get_sorted_users: sorted() is stable
GetSortedUsers(col) ==
    IF col = <<>> THEN <<>>
    ELSE InsertUser(GetSortedUsers(SubSeq(col, 1, Len(col) - 1)), col[Len(col)])

\* handlers/rankings.py:48-52  cur_key
CurKey(user) == <<user.rating, user.wrong, RegisteredAt(user)>>

Min(a, b) == IF a < b THEN a ELSE b

RECURSIVE RankingLoop(_, _, _, _, _, _, _)
\* handlers/rankings.py:45-61  the loop over range(i, end_idx): the ranks of
\* the lines appended to the message
RankingLoop(sorted, i, end_idx, prev_key, actual_pos, rank, lines) ==
    IF i >= end_idx THEN lines
    ELSE LET user == sorted[i + 1]
             pos == actual_pos + 1
             cur_key == [key |-> CurKey(user)]
             new_rank == IF cur_key # prev_key THEN pos ELSE rank
             new_prev == IF cur_key # prev_key THEN cur_key ELSE prev_key
         IN  RankingLoop(sorted, i + 1, end_idx, new_prev, pos, new_rank,
                         Append(lines, [rank |-> new_rank, user |-> user]))

\* handlers/rankings.py:29-61  build_ranking_message(page): page invalid, or
\* the lines of the page; prev_key = None, actual_pos = 0 and rank = 0 before
\* the loop (lines 38-40), whatever the page
BuildRankingMessage(col, page) ==
    LET sorted == GetSortedUsers(col)
        total_users == Len(sorted)
        total_pages == (total_users + ITEMS_PER_PAGE - 1) \div ITEMS_PER_PAGE
        start_idx == (page - 1) * ITEMS_PER_PAGE
        end_idx == Min(start_idx + ITEMS_PER_PAGE, total_users)
    IN  IF page < 1 \/ page > total_pages
          THEN [valid |-> FALSE, lines |-> <<>>]
          ELSE [valid |-> TRUE,
                lines |-> RankingLoop(sorted, start_idx, end_idx, None, 0, 0, <<>>)]

\* every variable outside rankVars
exceptRank == <<jobSide, chatSide, deployment, lastSubmit, judgeVars, compareVars, normVars, flagVars,
                runVars, apiVars>>

\* /rankings, or a press on a page button: build_ranking_message(page)
RankingsPage(page) ==
    /\ rpage # page
    /\ rpage' = page
    /\ rmsg' = BuildRankingMessage(rcol, page)
    /\ UNCHANGED <<exceptRank, rcol, rsorted>>

\* the documents the collection can hold for the sort: users that differ in
\* the registration time only (two times, an unparsable value, no field),
\* one with a wrong problem more, one with a lower rating
SortUsers ==
    { RankUser(5, 0, Time(1)), RankUser(5, 0, Time(2)), RankUser(5, 0, Garbage),
      RankUser(5, 0, Absent), RankUser(5, 1, Time(1)), RankUser(2, 0, Time(1)) }

\* handlers/rankings.py:17-27, 30  get_sorted_users() is called
GetSortedUsersCall ==
    /\ rsorted = None
    /\ rsorted' = [users |-> GetSortedUsers(rcol)]
    /\ UNCHANGED <<exceptRank, rcol, rpage, rmsg>>

(* ------------------------- web ingress: api_submit -------------------- *)
\* request.headers.get("X-User-Id") and payload.get("problem_id") of a request
\* that does not carry them
Missing == 0

\* POST /api/submit requests: the X-User-Id header and the JSON body.  One
\* request per kind of input.
WebRequest(uid, pid, lang, code) == [uid |-> uid, problem_id |-> pid, language |-> lang, code |-> code]
WebRequests ==
    { WebRequest(1, 1, "py", c) : c \in Codes }
    \cup { WebRequest(1, 1, "rb", "correct"),
           WebRequest(1, UnknownPid, "py", "correct"),
           WebRequest(1, Missing, "py", "correct"),
           WebRequest(Missing, 1, "py", "correct") }

\* keep_alive.py:276-286  what api_submit decides for a request:
\* require_user raises ValueError without a user id and int(None) raises
\* TypeError (both answered 400 by the except clause); a problem that
\* find_problem_by_id does not find is answered 404; the language tag is not
\* looked at
ApiSubmitOutcome(req) ==
    IF req.uid = Missing THEN "400"
    ELSE IF req.problem_id = Missing THEN "400"
    ELSE IF req.problem_id \notin ProblemIds THEN "404"
    ELSE "enqueued"

\* keep_alive.py:274-294  api_submit up to the return of create_job, run by
\* request thread t: ensure_workers(), require_user(),
\* ensure_user_initialized(uid), the problem lookup, create_job(payload)
ApiSubmitCreate(t, req) ==
    /\ deployment = "webapp"
    /\ ipc[t] = "idle"
    /\ worker_lock = 0
    /\ lastSubmit.seq < MaxSubmits
    /\ IF WORKER_STARTED
         THEN UNCHANGED <<wpc, wjob, wout, spawnCalls, worker_started, WORKER_STARTED>>
         ELSE /\ IF worker_started
                   THEN UNCHANGED <<wpc, wjob, wout, spawnCalls, worker_started>>
                   ELSE /\ SpawnWorkers(ClampWorkers(EnsureWorkersArg))
                        /\ worker_started' = TRUE
              /\ WORKER_STARTED' = TRUE
    /\ LET outcome == ApiSubmitOutcome(req)
           initialised == IF req.uid = Missing THEN users ELSE EnsureUserInitialized(users, req.uid)
       IN  /\ lastSubmit' = [seq |-> lastSubmit.seq + 1, req |-> req, outcome |-> outcome]
           /\ IF outcome = "enqueued"
                THEN /\ allocated # JobIds
                     /\ LET id == FreshJobId(allocated)
                            payload == [user_id |-> req.uid, problem_id |-> req.problem_id,
                                        language |-> req.language, code |-> req.code]
                        IN  /\ jobs' = (id :> [id |-> id, status |-> "queued", payload |-> payload,
                                               result |-> None, error |-> None, created_at |-> clock])
                                       @@ jobs
                            /\ allocated' = allocated \cup {id}
                            /\ job_queue' = Append(job_queue, id)
                            /\ putCount' = [putCount EXCEPT ![id] = @ + 1]
                            /\ returned' = returned \cup {id}
                            /\ ijob' = [ijob EXCEPT ![t] = id]
                            /\ iarg' = [iarg EXCEPT ![t] = payload]
                     /\ clock' = clock + 1
                     /\ ipc' = [ipc EXCEPT ![t] = "save"]
                ELSE UNCHANGED <<queueVars>>
           /\ users' = initialised
    /\ UNCHANGED <<chatVars, applied, clientVars, deployment, pureVars, worker_lock, spc, sarg,
                   getCount, callCount, lastPoll>>

\* keep_alive.py:296-304  the rest of api_submit: save_submission(uid, record
\* with verdict "QUEUED"), then the response with the job id
ApiSubmitSave(t) ==
    /\ ipc[t] = "save"
    /\ users' = SaveSubmission(users, iarg[t].user_id,
                    [problem_id |-> iarg[t].problem_id, verdict |-> "QUEUED",
                     lang |-> iarg[t].language])
    /\ answered' = answered \cup {ijob[t]}
    /\ ipc' = [ipc EXCEPT ![t] = "idle"]
    /\ ijob' = [ijob EXCEPT ![t] = 0]
    /\ iarg' = [iarg EXCEPT ![t] = None]
    /\ UNCHANGED <<chatVars, applied, clientVars, deployment, lastSubmit,
                   judgeVars, compareVars, normVars, rankVars, flagVars, runVars, lastRun,
                   jobs, job_queue, clock, allocated, returned, putCount,
                   workerVars, startVars, lastPoll>>

\* keep_alive.py:297-306  save_submission raises (the database call fails):
\* the except clause answers 400 with the error text and no job id
ApiSubmitSaveFails(t) ==
    /\ ipc[t] = "save"
    /\ ipc' = [ipc EXCEPT ![t] = "idle"]
    /\ ijob' = [ijob EXCEPT ![t] = 0]
    /\ iarg' = [iarg EXCEPT ![t] = None]
    /\ UNCHANGED <<chatSide, deployment, lastSubmit, pureVars,
                   jobs, job_queue, clock, allocated, returned, putCount,
                   workerVars, startVars, lastPoll>>

(* ---------------------------- specification --------------------------- *)
InitCore ==
    /\ jobs = <<>>
    /\ job_queue = <<>>
    /\ worker_started = FALSE
    /\ worker_lock = 0
    /\ WORKER_STARTED = FALSE
    /\ wpc = <<>>
    /\ wjob = <<>>
    /\ wout = <<>>
    /\ spc = [s \in Starters |-> "idle"]
    /\ sarg = [s \in Starters |-> 0]
    /\ ipc = [t \in IngressThreads |-> "idle"]
    /\ ijob = [t \in IngressThreads |-> 0]
    /\ iarg = [t \in IngressThreads |-> None]
    /\ clock = 1
    /\ lastPoll = None
    /\ allocated = {}
    /\ returned = {}
    /\ putCount = [j \in JobIds |-> 0]
    /\ getCount = [j \in JobIds |-> 0]
    /\ callCount = [j \in JobIds |-> 0]
    /\ spawnCalls = 0
    /\ users = <<>>
    /\ pending_submissions = <<>>
    /\ submission_queue = <<>>
    /\ jpc = <<>>
    /\ jsub = <<>>
    /\ subCount = 0
    /\ raisedSubs = {}
    /\ handledSubs = {}
    /\ applied = <<>>
    /\ lpc = [c \in Clients |-> "idle"]
    /\ larg = [c \in Clients |-> None]
    /\ lread = [c \in Clients |-> None]
    /\ callsBegun = [u \in Users |-> 0]
    /\ callsAborted = 0
    /\ lastSubmit = [seq |-> 0, req |-> None, outcome |-> ""]
    /\ ocalls = <<>>
    /\ overdict = None
    /\ cres = None

\* no orchestrator or comparator input under examination
NormIdle == ntext = <<>> /\ nlines = None
RankIdle == rcol = <<>> /\ rpage = 0 /\ rmsg = None /\ rsorted = None
FlagIdle == pflag = FALSE /\ fres = None
RunIdle ==
    /\ rcpc = [c \in Callers |-> "idle"]
    /\ rclang = [c \in Callers |-> ""]
    /\ tmpdir = [c \in Callers |-> 0]
    /\ rcret = [c \in Callers |-> <<>>]
    /\ rcverdict = [c \in Callers |-> None]
    /\ rchist = [c \in Callers |-> NoHistory]
    /\ fsdirs = {}
ApiIdle == lastRun = None /\ answered = {}
MoreIdle == NormIdle /\ RankIdle /\ FlagIdle /\ RunIdle /\ ApiIdle

InitBase ==
    /\ InitCore
    /\ MoreIdle
    /\ otests = <<>>
    /\ cexp = <<>>
    /\ cact = <<>>

\* the web application: job queue, worker threads, pollers
Init == InitBase /\ deployment = "webapp"

WorkerNext ==
    \/ \E w \in Workers : WorkerGet(w)
    \/ \E w \in Workers : WorkerSetRunning(w)
    \/ \E w \in Workers : WorkerProcess(w)
    \/ \E w \in Workers : WorkerSetResult(w)
    \/ \E w \in Workers : WorkerSetDone(w)
    \/ \E w \in Workers : WorkerSetError(w)
    \/ \E w \in Workers : WorkerSetStatusError(w)

Next ==
    \/ \E t \in IngressThreads, p \in Payloads : CreateJobStore(t, p)
    \/ \E t \in IngressThreads : CreateJobPut(t)
    \/ \E n \in 0..MaxWorkersArg : StartWorkerOnce(n)
    \/ EnsureWorkers
    \/ WorkerNext

Spec == Init /\ [][Next]_vars

\* Start-up with racing callers: every statement of ensure_workers and
\* start_worker_once is a step of the calling thread.
StartNext ==
    \/ \E s \in Starters : EnsureWorkersCheck(s)
    \/ \E s \in Starters, n \in 0..MaxWorkersArg : StartWorkerOnceCall(s, n)
    \/ \E s \in Starters : StartWorkerOnceAcquire(s)
    \/ \E s \in Starters : StartWorkerOnceCheck(s)
    \/ \E s \in Starters : StartWorkerOnceSpawn(s)
    \/ \E s \in Starters : StartWorkerOnceSetStarted(s)
    \/ \E s \in Starters : EnsureWorkersSetFlag(s)

StartSpec == Init /\ [][StartNext]_vars

\* The bot: commands and messages of chat users, and the judge_worker tasks.
ChatInit == InitBase /\ deployment = "bot"

ChatNext ==
    \/ \E u \in Users : RegisterCmd(u)
    \/ \E u \in Users, pid \in ChatProblemIds \cup {UnknownPid}, lang \in {"py", "rb"} :
          SubmitCmd(u, pid, lang)
    \/ \E u \in Users, code \in Codes : HandleCode(u, code)
    \/ StartJudgeWorkers
    \/ \E k \in JudgeWorkers : JudgeWorkerGet(k)
    \/ \E k \in JudgeWorkers, f \in FailPoints : ProcessSubmission(k, f)

ChatSpec == ChatInit /\ [][ChatNext]_vars

\* Concurrent update_user_rating calls on one users collection.
LedgerRaceNext ==
    \/ \E u \in Users : RegisterCmd(u)
    \/ \E c \in Clients, u \in Users, pid \in ChatProblemIds, v \in {Accepted, "WrongAnswer"} :
          LedgerBegin(c, u, pid, v)
    \/ \E c \in Clients : LedgerEnsureFind(c)
    \/ \E c \in Clients : LedgerEnsureInsert(c)
    \/ \E c \in Clients : LedgerFind(c)
    \/ \E c \in Clients : LedgerUpdate(c)

LedgerRaceSpec == ChatInit /\ [][LedgerRaceNext]_vars

JudgeWorkerStep(k) ==
    /\ k \in JudgeWorkers
    /\ \/ JudgeWorkerGet(k)
       \/ \E f \in FailPoints : ProcessSubmission(k, f)

\* One iteration step of worker thread w.  A started thread that can take a
\* step is scheduled eventually (the threads are OS threads).
WorkerStep(w) ==
    /\ w \in Workers
    /\ \/ WorkerGet(w) \/ WorkerSetRunning(w) \/ WorkerProcess(w) \/ WorkerSetResult(w)
       \/ WorkerSetDone(w) \/ WorkerSetError(w) \/ WorkerSetStatusError(w)

\* The queue with create_job, start_worker_once and ensure_workers as whole
\* calls, and the worker threads scheduled fairly.
FairNext ==
    \/ \E p \in Payloads : CreateJob(1, p)
    \/ \E n \in 0..MaxWorkersArg : StartWorkerOnce(n)
    \/ EnsureWorkers
    \/ WorkerNext

\* The queue observed by pollers: GET /api/job/<id> for known and unknown ids.
PollNext ==
    \/ FairNext
    \/ \E id \in JobIds \cup {UnknownJobId} : ApiJob(id)

PollSpec == Init /\ [][PollNext]_vars

FairSpec == Init /\ [][FairNext]_vars /\ \A w \in 1..WorkerCap : WF_vars(WorkerStep(w))

\* Both loops under fair scheduling: the process is either the web
\* application (worker threads) or the bot (judge_worker tasks); the two share
\* no variable of the model.
LoopsInit == InitBase /\ deployment \in {"webapp", "bot"}

LoopsNext == FairNext \/ ChatNext

LoopsSpec ==
    /\ LoopsInit /\ [][LoopsNext]_vars
    /\ \A w \in 1..WorkerCap : WF_vars(WorkerStep(w))
    /\ \A k \in 1..JudgeWorkerCount : WF_vars(JudgeWorkerStep(k))

\* The web application seen from its HTTP interface: POST /api/submit by the
\* request threads, the import-time ensure_workers() call, the worker threads.
WebNext ==
    \/ \E t \in IngressThreads, req \in WebRequests : ApiSubmitCreate(t, req)
    \/ \E t \in IngressThreads : ApiSubmitSave(t)
    \/ EnsureWorkers
    \/ WorkerNext

\* POST /api/submit with a database that may fail under save_submission.
SubmitNext ==
    \/ \E t \in IngressThreads, req \in WebRequests : ApiSubmitCreate(t, req)
    \/ \E t \in IngressThreads : ApiSubmitSave(t)
    \/ \E t \in IngressThreads : ApiSubmitSaveFails(t)
    \/ WorkerNext

SubmitSpec == Init /\ [][SubmitNext]_vars

\* Both ingress paths, each in its own process, with the threads and tasks
\* that carry a submission to its end scheduled fairly.
EndToEndNext == WebNext \/ ChatNext

EndToEndSpec ==
    /\ LoopsInit /\ [][EndToEndNext]_vars
    /\ \A w \in 1..WorkerCap : WF_vars(WorkerStep(w))
    /\ \A t \in IngressThreads : WF_vars(ApiSubmitSave(t))
    /\ \A k \in 1..JudgeWorkerCount : WF_vars(JudgeWorkerStep(k))


\* The two orchestrators as functions: a problem's test cases with the
\* outcome the Runner has for each, judged by judge_code (bot) or by
\* _process_submission_job (web application).
JudgeInit ==
    /\ InitCore
    /\ MoreIdle
    /\ deployment \in {"webapp", "bot"}
    /\ otests \in TestRuns
    /\ cexp = <<>>
    /\ cact = <<>>

JudgeNext == JudgeCodeCall \/ ProcessJobCall

JudgeSpec == JudgeInit /\ [][JudgeNext]_vars

\* The comparator as a function: every pair of texts over the alphabet of
\* lines is compared, and compared again after lines of the actual text are
\* exchanged.
CompareInit ==
    /\ InitCore
    /\ MoreIdle
    /\ deployment = "webapp"
    /\ otests = <<>>
    /\ cexp \in Texts
    /\ cact \in Texts

CompareNext ==
    \/ CompareCall
    \/ \E i, j \in 1..MaxLines : ComparePermuted(i, j)

CompareSpec == CompareInit /\ [][CompareNext]_vars

\* normalize_output as a function: every text over the alphabet of lines is
\* normalized, and the newline-joined result is normalized again.
NormalizeInit ==
    /\ InitCore
    /\ deployment = "bot"
    /\ otests = <<>>
    /\ cexp = <<>>
    /\ cact = <<>>
    /\ ntext \in Texts \cup {<<>>}
    /\ nlines = None
    /\ RankIdle
    /\ FlagIdle
    /\ RunIdle
    /\ ApiIdle

NormalizeNext == NormalizeCall \/ NormalizeJoined

NormalizeSpec == NormalizeInit /\ [][NormalizeNext]_vars

\* The ranking listing as a function: every collection of up to MaxPerKind
\* users of each kind, every page.
RankInit ==
    /\ InitCore
    /\ deployment = "bot"
    /\ otests = <<>>
    /\ cexp = <<>>
    /\ cact = <<>>
    /\ NormIdle
    /\ FlagIdle
    /\ RunIdle
    /\ ApiIdle
    /\ rcol \in Collections
    /\ rpage = 0
    /\ rmsg = None
    /\ rsorted = None

RankNext == \E page \in 1..MaxPage : RankingsPage(page)

RankSpec == RankInit /\ [][RankNext]_vars

\* get_sorted_users as a function: every collection of up to MaxRanked
\* documents, in every order.
SortInit ==
    /\ InitCore
    /\ deployment = "bot"
    /\ otests = <<>>
    /\ cexp = <<>>
    /\ cact = <<>>
    /\ NormIdle
    /\ FlagIdle
    /\ RunIdle
    /\ ApiIdle
    /\ rcol \in SeqsUpTo(SortUsers, MaxRanked)
    /\ rpage = 0
    /\ rmsg = None
    /\ rsorted = None

SortSpec == SortInit /\ [][GetSortedUsersCall]_vars

\* One test case judged on texts: every expected text, every text run_code
\* can return, a problem with and without allow_unordered_output, on either
\* path.
FlagInit ==
    /\ InitCore
    /\ deployment \in {"webapp", "bot"}
    /\ otests = <<>>
    /\ cexp \in Texts
    /\ cact \in {t \in Texts : IsRunnerOutput(t)}
    /\ NormIdle
    /\ RankIdle
    /\ pflag \in BOOLEAN
    /\ fres = None
    /\ RunIdle
    /\ ApiIdle

FlagNext == ChatJudgeText \/ JobJudgeText

FlagSpec == FlagInit /\ [][FlagNext]_vars

\* run_code called by NumCallers concurrent callers (the worker threads of
\* the web application, the to_thread calls of the bot's judge workers), with
\* every lang and every way the compiler and the program can end.
RunInit ==
    /\ InitCore
    /\ deployment \in {"webapp", "bot"}
    /\ otests = <<>>
    /\ cexp = <<>>
    /\ cact = <<>>
    /\ NormIdle
    /\ RankIdle
    /\ FlagIdle
    /\ RunIdle
    /\ ApiIdle

RunNext ==
    \E c \in Callers :
        \/ \E lang \in RunLangs : RunCodeEnter(c, lang)
        \/ RunCodeWrite(c)
        \/ \E exit \in {0, 1} : RunCodeCompile(c, exit)
        \/ \E end \in RunEnds : RunCodeRun(c, end)
        \/ RunCodeRaise(c)
        \/ JudgeCodeResult(c)
        \/ ProcessJobResult(c)
        \/ RunCodeNext(c)

RunSpec == RunInit /\ [][RunNext]_vars

\* The web application with POST /api/run next to POST /api/submit and the
\* workers: one request thread runs api_run (and run_code in it) while
\* another submits for user 1 and problem 1 and the jobs are processed.
ApiRunStep(c) ==
    \/ \E lang \in RunLangs : ApiRunCall(c, lang)
    \/ RunCodeWrite(c)
    \/ \E exit \in {0, 1} : RunCodeCompile(c, exit)
    \/ \E end \in RunEnds : RunCodeRun(c, end)
    \/ RunCodeRaise(c)
    \/ ApiRunRespond(c)

ApiRunNext ==
    \/ ApiRunStep(1)
    \/ ApiRunBadRequest
    \/ \E code \in {"correct", "wrong"} : ApiSubmitCreate(1, WebRequest(1, 1, "py", code))
    \/ ApiSubmitSave(1)
    \/ WorkerNext

ApiRunSpec == Init /\ [][ApiRunNext]_vars

(* ------------------------------- claims ------------------------------- *)
Terminal(j) == j \in DOMAIN jobs /\ jobs[j].status \in {"done", "error"}
StatusSteps == {<<"queued", "running">>, <<"running", "done">>, <<"running", "error">>}

\* C1: a job's status only moves queued -> running -> done | error; a new job
\* starts queued; a job is never deleted; once done or error its status,
\* payload, result and error never change and its id is not on the FIFO again.
C1_StatusMonotonic ==
    [][\A j \in JobIds :
          /\ (j \in DOMAIN jobs' /\ j \notin DOMAIN jobs) => jobs'[j].status = "queued"
          /\ j \in DOMAIN jobs =>
                /\ j \in DOMAIN jobs'
                /\ jobs'[j].payload = jobs[j].payload
                /\ jobs'[j].status # jobs[j].status
                      => <<jobs[j].status, jobs'[j].status>> \in StatusSteps
                /\ Terminal(j) =>
                      /\ jobs'[j] = jobs[j]
                      /\ \A i \in 1..Len(job_queue') : job_queue'[i] # j]_vars

C1_Witness ==
    \E j, k \in DOMAIN jobs : jobs[j].status = "done" /\ jobs[k].status = "error"

\* C2: once workers are started, every job create_job returned eventually is
\* done or error and keeps that status (what get_job reports) from then on; a
\* running job always reaches done or error.
C2_EventuallyTerminal ==
    /\ \A j \in JobIds : (j \in returned /\ worker_started) ~> Terminal(j)
    /\ \A j \in JobIds : (j \in DOMAIN jobs /\ jobs[j].status = "running") ~> Terminal(j)
    /\ [][\A j \in JobIds : Terminal(j) => GetJob(j)' = GetJob(j)]_vars

C2_Witness ==
    /\ worker_started
    /\ \A j \in JobIds : j \in returned /\ Terminal(j)

\* C3: every job id is put on the FIFO exactly once by create_job, taken from
\* it at most once, held by at most one worker, and process_fn is invoked at
\* most once for it.
C3_ProcessedAtMostOnce ==
    \A j \in JobIds :
        /\ putCount[j] <= 1
        /\ j \in returned <=> putCount[j] = 1
        /\ getCount[j] <= putCount[j]
        /\ callCount[j] <= getCount[j]
        /\ Cardinality({w \in Workers : wjob[w] = j}) <= 1
        /\ Cardinality({i \in 1..Len(job_queue) : job_queue[i] = j}) <= 1

C3_Witness ==
    /\ Len(wpc) >= 2
    /\ \A j \in JobIds : Terminal(j) /\ callCount[j] = 1
    /\ \E j, k \in JobIds : jobs[j].status = "error" /\ jobs[k].status = "done"

WorkerPositions == {"get", "mark", "call", "result", "done", "except", "error"}

\* C4: a job whose process_fn call raised ends with status error, the
\* exception's message in its error field and no result; no worker thread and
\* no judge_worker task ever leaves its loop; every job returned by create_job
\* is processed and every chat submission put on submission_queue is handled,
\* also after an earlier one raised.
C4_LoopSurvivesException ==
    /\ [](\A j \in DOMAIN jobs :
            (/\ callCount[j] = 1
             /\ ProcessSubmissionJob(jobs[j].payload).raised
             /\ \A w \in Workers : wjob[w] # j)
            => /\ jobs[j].status = "error"
               /\ jobs[j].error = ProcessSubmissionJob(jobs[j].payload).value
               /\ jobs[j].result = None)
    /\ [](\A w \in Workers : wpc[w] \in WorkerPositions)
    /\ [](\A k \in JudgeWorkers : jpc[k] \in {"get", "process"})
    /\ \A j \in JobIds : (j \in returned /\ worker_started) ~> (callCount[j] = 1 /\ Terminal(j))
    /\ \A i \in 1..MaxSubs : (subCount >= i /\ jpc # <<>>) ~> (i \in handledSubs)

\* a single worker thread failed on the first job and finished the next one
C4_Witness ==
    /\ Len(wpc) = 1
    /\ \E j, k \in DOMAIN jobs :
          /\ jobs[j].created_at < jobs[k].created_at
          /\ jobs[j].status = "error" /\ jobs[j].error # None
          /\ jobs[k].status = "done"

\* a chat submission was handled after process_submission raised for an
\* earlier one
C4_ChatWitness ==
    /\ 1 \in raisedSubs
    /\ 2 \in handledSubs \ raisedSubs

\* C5: worker threads are started by at most one start_worker_once call: the
\* number of threads changes only from zero, while _worker_started is unset,
\* to a count in 1..4, and never again, whatever calls race or follow.
C5_StartOnce ==
    /\ [](spawnCalls <= 1 /\ Len(wpc) <= WorkerCap)
    /\ [](worker_started => spawnCalls = 1 /\ Len(wpc) >= 1)
    /\ [][/\ worker_started => (worker_started' /\ wpc' = wpc)
          /\ Len(wpc') # Len(wpc) => (Len(wpc) = 0 /\ spawnCalls = 0)]_vars

\* after the start, a second caller is inside start_worker_once holding the
\* lock while a third call has already returned
C5_Witness ==
    /\ worker_started /\ spawnCalls = 1
    /\ \E s \in Starters : spc[s] \in {"ew_locked", "sw_locked"}
    /\ \E s \in Starters : spc[s] = "ew_set"

\* C6: with exactly one worker thread, jobs reach done / error in the order
\* in which create_job created them (the order of their created_at).
C6_CompletionInCreationOrder ==
    [][Len(wpc) = 1 =>
          \A j \in DOMAIN jobs :
              (~Terminal(j) /\ Terminal(j)') =>
                  \A k \in DOMAIN jobs :
                      jobs[k].created_at < jobs[j].created_at => Terminal(k)]_vars

\* C7: api_job answers 404 for an id create_job never produced and, for an
\* id create_job returned, 200 with the job's current status, one of queued,
\* running, done, error, at every later time; the call changes neither the
\* job store nor the FIFO.
C7_GetJob ==
    /\ [](\A id \in JobIds \cup {UnknownJobId} :
            /\ id \notin allocated => GetJob(id) = None
            /\ id \in returned =>
                  /\ GetJob(id) # None
                  /\ GetJob(id).status \in {"queued", "running", "done", "error"})
    /\ [][lastPoll' # lastPoll =>
            /\ UNCHANGED <<jobs, job_queue>>
            /\ lastPoll'.id \notin allocated => lastPoll'.code = 404
            /\ lastPoll'.id \in returned =>
                  /\ lastPoll'.code = 200
                  /\ lastPoll'.status = jobs[lastPoll'.id].status]_vars

\* a poll of a finished job, after a poll of the unknown id had answered 404
C7_Witness ==
    /\ lastPoll # None
    /\ lastPoll.code = 200 /\ lastPoll.status \in {"done", "error"}
    /\ \E j \in returned : jobs[j].status = "queued"

NoDuplicates(seq) == \A i, j \in 1..Len(seq) : i # j => seq[i] # seq[j]
DistinctPoints(seq) ==
    LET S == {seq[i] : i \in 1..Len(seq)}
        RECURSIVE Sum(_)
        Sum(T) == IF T = {} THEN 0
                  ELSE LET x == CHOOSE y \in T : TRUE
                       IN  LevelRating(ProblemLevel(x)) + Sum(T \ {x})
    IN  Sum(S)

\* C9: two update_user_rating calls in a row for the same user and problem,
\* both Accepted, the problem not accepted before: the first adds the level's
\* points to rating and total_rating, the second adds nothing, and
\* submission_count grows by one in each.
C9_AcceptedTwice ==
    Len(applied) = 2 =>
        LET a == applied[1]
            b == applied[2]
            points == LevelRating(ProblemLevel(a.pid))
        IN  (/\ a.user = b.user /\ a.pid = b.pid
             /\ a.verdict = Accepted /\ b.verdict = Accepted
             /\ ~Contains(a.before.accepted_problems, a.pid))
            => /\ a.after.rating = a.before.rating + points
               /\ a.after.total_rating = a.before.total_rating + points
               /\ b.after.rating = a.after.rating
               /\ b.after.total_rating = a.after.total_rating
               /\ a.after.submission_count = a.before.submission_count + 1
               /\ b.after.submission_count = a.after.submission_count + 1
               /\ users[a.user].rating = a.before.rating + points

C9_Witness ==
    /\ Len(applied) = 2
    /\ applied[1].user = applied[2].user /\ applied[1].pid = applied[2].pid
    /\ applied[1].verdict = Accepted /\ applied[2].verdict = Accepted
    /\ ~Contains(applied[1].before.accepted_problems, applied[1].pid)
    /\ applied[2].after.rating = 5

\* C10: whatever the interleaving of concurrent update_user_rating calls for
\* one registered user, the points of a problem are awarded once (rating and
\* total_rating are the points of the distinct accepted problems), the
\* accepted list holds no problem twice, and when no call is in progress (and
\* none was ended by an exception of the store) submission_count is the
\* number of calls made.
C10_AtomicApplyVerdict ==
    \A u \in DOMAIN users :
        users[u].registered =>
            /\ NoDuplicates(users[u].accepted_problems)
            /\ users[u].rating = DistinctPoints(users[u].accepted_problems)
            /\ users[u].total_rating = DistinctPoints(users[u].accepted_problems)
            /\ (callsAborted = 0 /\ \A c \in Clients : lpc[c] = "idle")
                  => users[u].submission_count = callsBegun[u]

\* C11: in every user document, no problem id is both in accepted_problems
\* and in wrong_problems, whatever verdicts the ledger has applied (also a
\* verdict that is not Accepted followed by Accepted for the same problem).
C11_AcceptedWrongDisjoint ==
    \A u \in DOMAIN users :
        \A p \in ChatProblemIds :
            ~(Contains(users[u].accepted_problems, p) /\ Contains(users[u].wrong_problems, p))

JobUser(j) == users[jobs[j].payload.user_id]
HasRecord(subs, pid, verdict) ==
    \E i \in 1..Len(subs) : subs[i].problem_id = pid /\ subs[i].verdict = verdict

\* C14: a job submitted through api_submit whose code runs into the 3-second
\* limit eventually has status done and a Time Limit Exceeded verdict, with
\* the problem id in the user's wrong_problems (it was in neither list
\* before); the user's rating does not change when the job finishes.
C14_TimeoutEndToEnd ==
    /\ \A j \in JobIds :
          (/\ j \in returned
           /\ jobs[j].payload.code = "loops"
           /\ jobs[j].payload.language \in SupportedLangs)
          ~> (/\ j \in DOMAIN jobs
              /\ jobs[j].status = "done"
              /\ jobs[j].result.verdict = "timeout"
              /\ \/ Contains(JobUser(j).wrong_problems, jobs[j].payload.problem_id)
                 \/ Contains(JobUser(j).accepted_problems, jobs[j].payload.problem_id))
    /\ [][\A j \in DOMAIN jobs :
            (jobs[j].payload.code = "loops" /\ jobs[j].status # "done" /\ jobs'[j].status = "done")
                => JobUser(j)'.rating = JobUser(j).rating]_vars

\* C15: correct code for the two-test-case Easy problem is judged Accepted,
\* the rating grows by exactly 5 and accepted_problems holds the problem id; a
\* second identical submission is Accepted again and leaves the rating as it
\* is -- for a job submitted through api_submit and finished by a worker, and
\* for a chat submission processed by process_submission.
C15_AcceptedEndToEnd ==
    /\ \A j \in DOMAIN jobs :
          (/\ Terminal(j)
           /\ jobs[j].payload.code = "correct"
           /\ jobs[j].payload.language \in SupportedLangs)
          => /\ jobs[j].status = "done"
             /\ jobs[j].result.verdict = "AC"
             /\ JobUser(j).rating = LevelRating(ProblemLevel(jobs[j].payload.problem_id))
             /\ Contains(JobUser(j).accepted_problems, jobs[j].payload.problem_id)
    /\ \A lang \in SupportedLangs : JudgeCode(lang, "correct") = Accepted
    /\ \A i \in 1..Len(applied) :
          applied[i].verdict = Accepted =>
              /\ Contains(applied[i].after.accepted_problems, applied[i].pid)
              /\ applied[i].after.rating =
                    applied[i].before.rating
                    + (IF Contains(applied[i].before.accepted_problems, applied[i].pid)
                         THEN 0 ELSE LevelRating(ProblemLevel(applied[i].pid)))

\* C16: once a job is done (and api_submit has returned for it) the user's
\* submissions hold a record with the job's verdict, and no more records
\* carry the placeholder QUEUED than there are jobs not yet done; every chat
\* submission the ledger was applied for has a record with its verdict.
C16_VerdictRecorded ==
    /\ \A j \in DOMAIN jobs :
          (/\ jobs[j].status = "done"
           /\ jobs[j].payload.language \in SupportedLangs
           /\ \A t \in IngressThreads : ijob[t] # j)
          => HasRecord(JobUser(j).submissions, jobs[j].payload.problem_id, jobs[j].result.verdict)
    /\ \A u \in DOMAIN users :
          Cardinality({i \in 1..Len(users[u].submissions) : users[u].submissions[i].verdict = "QUEUED"})
              <= Cardinality({j \in DOMAIN jobs : jobs[j].status # "done"})
    /\ \A i \in 1..Len(applied) :
          HasRecord(applied[i].after.submissions, applied[i].pid, applied[i].verdict)

\* C17: a POST /api/submit whose language tag is not one of py, c, cpp, java or
\* whose problem id is missing or unknown is rejected in the handler: no job
\* is created and the job store, the FIFO, pending_submissions and the user
\* documents stay as they are; /submit only ever records a pending submission
\* with a known problem id and one of the four language tags.
C17_InvalidRejected ==
    [][/\ (/\ lastSubmit'.seq # lastSubmit.seq
           /\ \/ lastSubmit'.req.language \notin SupportedLangs
              \/ lastSubmit'.req.problem_id \notin ProblemIds)
          => /\ lastSubmit'.outcome # "enqueued"
             /\ UNCHANGED <<jobs, job_queue, pending_submissions, users>>
       /\ \A u \in DOMAIN pending_submissions' :
             (u \notin DOMAIN pending_submissions \/ pending_submissions'[u] # pending_submissions[u])
             => /\ pending_submissions'[u].lang \in SupportedLangs
                /\ pending_submissions'[u].pid \in ChatProblemIds
                /\ UNCHANGED <<users, submission_queue>>]_vars

RECURSIVE FirstNonPassingFrom(_, _)
\* the number of the first test case whose Runner outcome is not accepted
\* output, 0 when every test case passes
FirstNonPassingFrom(outs, tc) ==
    IF tc > Len(outs) THEN 0
    ELSE IF outs[tc] # "out_ok" THEN tc
    ELSE FirstNonPassingFrom(outs, tc + 1)
FirstNonPassing(outs) == FirstNonPassingFrom(outs, 1)

\* C18: when the first test case that does not pass is number k, the Runner
\* was invoked exactly k times, for test cases 1..k in that order, and for no
\* later test case -- in judge_code and in _process_submission_job.
C18_ShortCircuit ==
    overdict # None =>
        LET k == FirstNonPassing(otests)
        IN  k # 0 => ocalls = [i \in 1..k |-> i]

\* _process_submission_job has judged a problem of three test cases whose
\* second test case fails
C18_Witness ==
    /\ overdict # None
    /\ deployment = "webapp"
    /\ Len(otests) = 3
    /\ FirstNonPassing(otests) = 2
    /\ ocalls = <<1, 2>>

\* the same for judge_code
C18_ChatWitness ==
    /\ overdict # None
    /\ deployment = "bot"
    /\ Len(otests) = 3
    /\ FirstNonPassing(otests) = 2
    /\ ocalls = <<1, 2>>

\* the verdict a Runner outcome that is not accepted output stands for
VerdictOf(outcome) == IF outcome = "out_bad" THEN "WrongAnswer" ELSE outcome
\* the verdict names of _process_submission_job, in those of judge_code
VerdictKind(kind) ==
    IF kind = "WA" THEN "WrongAnswer" ELSE IF kind = "AC" THEN Accepted ELSE kind

\* C19: for every problem and every sequence of Runner outcomes each
\* orchestrator yields exactly one verdict: Accepted when every test case
\* passes and only then, otherwise the verdict of the first test case that
\* does not pass, referring to that test case only.
C19_OneVerdict ==
    overdict # None =>
        LET k == FirstNonPassing(otests)
        IN  /\ ~overdict.raised
            /\ overdict.verdict # None
            /\ k = 0 <=> VerdictKind(overdict.verdict.kind) = Accepted
            /\ k # 0 => /\ VerdictKind(overdict.verdict.kind) = VerdictOf(otests[k])
                        /\ overdict.verdict.tc = k

\* the number of lines of a text that are line x once stripped
Occurrences(x, text) == Cardinality({i \in 1..Len(text) : Strip(text[i]) = x})
\* the two texts have the same non-blank lines, each the same number of times
SameLineCounts(expected, actual) ==
    \A x \in {Strip(l) : l \in RawLines} \ {""} :
        Occurrences(x, expected) = Occurrences(x, actual)

\* C20: with unordered comparison the result is the same for every
\* permutation of the lines of the actual text, and it is equality of the
\* multisets of non-blank lines: a line that occurs a different number of
\* times in the expected and in the actual text gives a mismatch -- for
\* compare_outputs and for the comparison in _process_submission_job.
C20_UnorderedIsMultiset ==
    /\ [](cres # None =>
            /\ cres.chat_unordered <=> SameLineCounts(cexp, cact)
            /\ cres.job_unordered <=> SameLineCounts(cexp, cact))
    /\ [][(cres # None /\ cact' # cact) =>
            /\ cres'.chat_unordered = cres.chat_unordered
            /\ cres'.job_unordered = cres.job_unordered]_vars

\* the actual text holds the expected lines in another order and compares
\* equal, although it would not in order; and a text with one line doubled
\* was found to differ
C20_Witness ==
    /\ cres # None
    /\ cexp = <<"a", "b ", "a">>
    /\ cact = <<"b ", "a", "a">>
    /\ cres.chat_unordered /\ cres.job_unordered
    /\ ~cres.chat_ordered
    /\ ~Comparisons(cexp, <<"a", "b ", "b ">>).chat_unordered

\* the normalized line sequence of a text: each line trimmed, blank lines
\* dropped, order kept
RECURSIVE NormalizedLines(_)
NormalizedLines(text) ==
    IF text = <<>> THEN <<>>
    ELSE IF Strip(Head(text)) = "" THEN NormalizedLines(Tail(text))
    ELSE <<Strip(Head(text))>> \o NormalizedLines(Tail(text))

\* C21: with unordered comparison disabled a judge accepts an output if and
\* only if the normalized line sequences of the expected and the actual text
\* are identical -- in compare_outputs and in the comparison of
\* _process_submission_job, the actual text being what run_code returned.
C21_OrderedIsSequence ==
    (cres # None /\ IsRunnerOutput(cact)) =>
        /\ cres.chat_ordered <=> NormalizedLines(cexp) = NormalizedLines(cact)
        /\ cres.job_ordered <=> NormalizedLines(cexp) = NormalizedLines(cact)

\* C21, compare_outputs alone: accepted exactly when the normalized line
\* sequences are identical, and exchanging two different lines of an accepted
\* output gives a mismatch
C21_ChatOrderedIsSequence ==
    /\ [](cres # None =>
            (cres.chat_ordered <=> NormalizedLines(cexp) = NormalizedLines(cact)))
    /\ [][(cres # None /\ cres.chat_ordered /\ cact' # cact
              /\ NormalizedLines(cact') # NormalizedLines(cact))
            => ~cres'.chat_ordered]_vars

\* C22: normalize is idempotent -- normalizing the newline-joined result of
\* normalize(text) gives the same line sequence as normalize(text); the
\* sequence holds no empty line and no line with leading or trailing white
\* space, and it is the text's non-blank lines, trimmed, in their order.
C22_NormalizeIdempotent ==
    /\ [](nlines # None =>
            /\ \A i \in 1..Len(nlines.lines) :
                    nlines.lines[i] # "" /\ Strip(nlines.lines[i]) = nlines.lines[i]
            /\ nlines.lines = NormalizedLines(ntext)
            /\ NormalizeOutput(JoinNewline(nlines.lines)) = nlines.lines)
    /\ [][(nlines # None /\ ntext' = JoinNewline(nlines.lines)) => nlines' = nlines]_vars

\* a text with blank lines at both ends and inside, and a line with trailing
\* white space, was normalized, joined and normalized again
C22_Witness ==
    /\ nlines = [lines |-> <<"a", "b">>]
    /\ ntext = <<"a", "b">>
    /\ NormalizeOutput(<<"a", "", "b ">>) = nlines.lines

\* the 1-based position, in the sorted sequence, of the first user with the
\* key of the user at position p
FirstWithKey(sorted, p) ==
    CHOOSE q \in 1..p :
        /\ CurKey(sorted[q]) = CurKey(sorted[p])
        /\ \A r \in 1..(q - 1) : CurKey(sorted[r]) # CurKey(sorted[p])

\* C23: on every page of the ranking listing each user is shown with the
\* 1-based position, in the whole sorted sequence, of the first user with the
\* same (rating, wrong count, registration time) key: users with an identical
\* key share a rank and the next distinct user's rank is their position.
C23_CompetitionRank ==
    (rmsg # None /\ rmsg.valid) =>
        LET sorted == GetSortedUsers(rcol)
            start_idx == (rpage - 1) * ITEMS_PER_PAGE
        IN  \A i \in 1..Len(rmsg.lines) :
                rmsg.lines[i].rank = FirstWithKey(sorted, start_idx + i)

\* C23 on the first page only
C23_FirstPage ==
    (rmsg # None /\ rmsg.valid /\ rpage = 1) =>
        LET sorted == GetSortedUsers(rcol)
        IN  \A i \in 1..Len(rmsg.lines) :
                rmsg.lines[i].rank = FirstWithKey(sorted, i)

C24_AcceptedWitness ==
    /\ Len(applied) = 2
    /\ applied[1].verdict = Accepted /\ applied[2].verdict # Accepted
    /\ applied[1].pid = applied[2].pid /\ applied[1].user = applied[2].user
    /\ users[applied[2].user].wrong_problems = <<>>

\* C25: each judged submission increases the user's submission_count by one
\* and appends one record to the user's submissions, so (no store call
\* having failed) submission_count equals the number of records.
C25_CountIsRecords ==
    /\ [](raisedSubs = {} =>
            \A u \in DOMAIN users :
                users[u].submission_count = Len(users[u].submissions))
    /\ [][applied' # applied =>
            LET u == applied'[Len(applied')].user
            IN  /\ users'[u].submission_count = users[u].submission_count + 1
                /\ Len(users'[u].submissions) = Len(users[u].submissions) + 1]_vars

\* C26: whenever a test case is judged, the comparison is made with the
\* judged problem's own allow_unordered_output flag, on the chat path and on
\* the Job path; so for a problem with the flag an output that holds the
\* expected lines in any order passes.
C26_ProblemFlagUsed ==
    fres # None =>
        /\ fres.allow_unordered = pflag
        /\ (pflag /\ SameLineCounts(cexp, cact)) => fres.match

\* C26 on the Job path alone
C26_JobFlagUsed ==
    (fres # None /\ fres.path = "job") =>
        /\ fres.allow_unordered = pflag
        /\ (pflag /\ SameLineCounts(cexp, cact)) => fres.match

\* the Runner's outcome of caller c's call, from what the call met
RunnerOutcome(c) ==
    IF rchist[c].raised THEN "InternalError"
    ELSE IF rclang[c] \notin SupportedLangs THEN "UnsupportedLanguage"
    ELSE IF rchist[c].compile = "nonzero" THEN "CompileError"
    ELSE IF rchist[c].run = "timeout" THEN "TimeLimitExceeded"
    ELSE IF rchist[c].run = "nonzero" THEN "RuntimeError"
    ELSE "Output"

\* the string that stands for a failure
FailureString(outcome) ==
    CASE outcome = "InternalError" -> InternalError
      [] outcome = "UnsupportedLanguage" -> UnsupportedLanguage
      [] outcome = "CompileError" -> CompileError
      [] outcome = "TimeLimitExceeded" -> TimeLimitExceeded
      [] outcome = "RuntimeError" -> RuntimeError

\* C27: the orchestrator returns a failure verdict if and only if the
\* Runner's outcome for the test case was that failure; an outcome that is
\* Output (exit code 0 within the limit) is handed to the comparator, whatever
\* the program printed.
C27_FailureIffRunnerFailed ==
    \A c \in Callers :
        rcverdict[c] # None =>
            IF RunnerOutcome(c) = "Output"
              THEN rcverdict[c].compared /\ ~rcverdict[c].returned
              ELSE /\ rcverdict[c].returned /\ ~rcverdict[c].compared
                   /\ rcverdict[c].verdict = FailureString(RunnerOutcome(c))

\* C27, one direction: a Runner failure is returned as that failure's verdict
\* and not compared
C27_FailureReturned ==
    \A c \in Callers :
        (rcverdict[c] # None /\ RunnerOutcome(c) # "Output") =>
            /\ rcverdict[c].returned /\ ~rcverdict[c].compared
            /\ rcverdict[c].verdict = FailureString(RunnerOutcome(c))

\* C28: a run_code call with a language tag outside {py, c, cpp, java}
\* returns UnsupportedLanguage without any filesystem or process activity: at
\* no step of the call has it created a directory, written a file or started
\* a process.
C28_UnsupportedTouchesNothing ==
    \A c \in Callers :
        (rcpc[c] # "idle" /\ rclang[c] \notin SupportedLangs) =>
            /\ rchist[c].dirs = 0 /\ rchist[c].files = 0 /\ rchist[c].procs = 0
            /\ tmpdir[c] = 0
            /\ (rcpc[c] \in {"returned", "judged"} /\ ~rchist[c].raised)
                  => rcret[c] = UnsupportedLanguage

\* C28 without the directory: an unknown tag is answered UnsupportedLanguage
\* (unless the call fails with another exception before), no file is written
\* and no process is started
C28_UnsupportedNoFileNoProcess ==
    \A c \in Callers :
        (rcpc[c] # "idle" /\ rclang[c] \notin SupportedLangs) =>
            /\ rchist[c].files = 0 /\ rchist[c].procs = 0
            /\ (rcpc[c] \in {"returned", "judged"} /\ ~rchist[c].raised)
                  => rcret[c] = UnsupportedLanguage

\* C29: every run_code call works in a directory created for that call
\* alone -- a new directory, never the directory of a concurrent call, which
\* exists as long as the call is inside the `with` block -- and on every exit
\* path (output, compile error, runtime error, timeout, unsupported language,
\* another exception) the directory no longer exists when the call returns.
C29_OwnDirectoryRemoved ==
    /\ [](\A c \in Callers :
            /\ rcpc[c] \in {"with", "compile", "run"}
                  => /\ tmpdir[c] \in fsdirs
                     /\ \A d \in Callers \ {c} : tmpdir[d] # tmpdir[c]
            /\ rcpc[c] \notin {"with", "compile", "run"} => tmpdir[c] = 0)
    /\ [][\A c \in Callers :
            /\ (rcpc[c] = "idle" /\ rcpc'[c] # "idle")
                  => tmpdir'[c] \in fsdirs' \ fsdirs
            /\ (rcpc[c] # "returned" /\ rcpc'[c] = "returned")
                  => tmpdir[c] \notin fsdirs']_vars

\* two calls are inside their `with` blocks at once, and so far a call has
\* returned a timeout with its directory gone
C29_Witness ==
    /\ rcpc[1] = "run" /\ rcpc[2] = "returned"
    /\ rcret[2] = TimeLimitExceeded
    /\ tmpdir[1] # 0
    /\ fsdirs = {tmpdir[1]}

\* C30: a run_code call returns one outcome, decided in this order: a
\* non-zero compiler exit gives CompileError and the program is never run;
\* otherwise expiry of the limit during the run gives TimeLimitExceeded;
\* otherwise a non-zero run exit gives RuntimeError; otherwise the captured
\* stdout (stripped) is returned as Output; any other exception gives
\* InternalError and the call still returns.
C30_OutcomeOrder ==
    /\ [](\A c \in Callers :
            rcpc[c] \in {"returned", "judged"} =>
                /\ rcret[c] = IF RunnerOutcome(c) = "Output"
                                THEN StrStrip(rchist[c].stdout)
                                ELSE FailureString(RunnerOutcome(c))
                /\ rchist[c].compile = "nonzero" => rchist[c].run = "none"
                /\ rchist[c].run # "none" =>
                      rchist[c].compile = IF rclang[c] \in CompiledLangs THEN "zero" ELSE "none"
                /\ (RunnerOutcome(c) = "Output") = (rchist[c].run = "zero" /\ ~rchist[c].raised))
    /\ [][\A c \in Callers :
            (rchist'[c].raised /\ ~rchist[c].raised)
                => rcpc'[c] = "returned" /\ rcret'[c] = InternalError]_vars

\* a java call whose compiler exited non-zero returned CompileError after one
\* process, and a py call returned what the program printed, stripped
C30_Witness ==
    /\ rcpc[1] = "returned" /\ rclang[1] = "java"
    /\ rchist[1].compile = "nonzero" /\ rchist[1].procs = 1
    /\ rcret[1] = CompileError
    /\ rcpc[2] = "returned" /\ rclang[2] = "py"
    /\ rchist[2].stdout = <<"42", "\n">>
    /\ rcret[2] = <<"42">>

\* a step of api_run: a step of the request thread's run_code call, or a
\* response to POST /api/run
IsApiRunStep == rcpc' # rcpc \/ lastRun' # lastRun

\* C31: no step of the run-with-custom-input path (api_run) changes a user
\* document, the job store or the job queue, whatever run_code returns.
C31_ApiRunFrame ==
    [][IsApiRunStep => users' = users /\ jobs' = jobs /\ job_queue' = job_queue]_vars

\* api_run has answered with the Runner's timeout string as output while a
\* job is stored and queued and the user has a document
C31_Witness ==
    /\ lastRun # None
    /\ lastRun.status = 200 /\ lastRun.verdict = "OK"
    /\ lastRun.output = TimeLimitExceeded
    /\ job_queue # <<>>
    /\ 1 \in DOMAIN users /\ users[1].submissions # <<>>

\* the number of documents of a sequence that equal u
CountOf(u, seq) == Cardinality({i \in 1..Len(seq) : seq[i] = u})
\* the document holds a time stamp in the expected format
ValidTime(u) == u.registered_at.kind = "time"

\* C32: get_sorted_users returns a permutation of the collection's documents
\* ordered by descending rating, then ascending number of wrong problems,
\* then ascending registration time, the documents whose time stamp is
\* missing or unparsable after all those with a valid one among otherwise
\* equal keys.
C32_RankOrder ==
    rsorted # None =>
        LET sorted == rsorted.users
        IN  /\ Len(sorted) = Len(rcol)
            /\ \A u \in SortUsers : CountOf(u, sorted) = CountOf(u, rcol)
            /\ \A i, j \in 1..Len(sorted) :
                  i < j =>
                      LET a == sorted[i]
                          b == sorted[j]
                      IN  /\ a.rating >= b.rating
                          /\ a.rating = b.rating => a.wrong <= b.wrong
                          /\ (a.rating = b.rating /\ a.wrong = b.wrong) =>
                                /\ (ValidTime(a) /\ ValidTime(b))
                                      => a.registered_at.t <= b.registered_at.t
                                /\ ~(~ValidTime(a) /\ ValidTime(b))

\* a collection stored in the reverse of the ranking order, with a document
\* without time stamp and one with an unparsable time stamp, was sorted
C32_Witness ==
    /\ rsorted # None
    /\ rcol = <<RankUser(2, 0, Time(1)), RankUser(5, 0, Garbage), RankUser(5, 0, Absent),
                RankUser(5, 0, Time(2))>>
    /\ rsorted.users = <<RankUser(5, 0, Time(2)), RankUser(5, 0, Absent),
                         RankUser(5, 0, Garbage), RankUser(2, 0, Time(1))>>

\* C33: for every problem (with at least one test case) and every sequence
\* of Runner outcomes the Job-path judge (_process_submission_job) and the
\* chat-path judge (judge_code) give the same classification: both accept,
\* both answer wrong answer, or both return the same failure.
C33_SameClassification ==
    (overdict # None /\ otests # <<>>) =>
        LET chat == JudgeCodeLoop(otests, 1, <<>>, None)
            job == ProcessJobLoop(otests, 1, <<>>, None)
        IN  /\ ~chat.raised /\ ~job.raised
            /\ VerdictKind(job.verdict.kind) = chat.verdict.kind

\* C33 for the submissions that have a test case that does not pass
C33_SameWhenNotAccepted ==
    (overdict # None /\ FirstNonPassing(otests) # 0) =>
        LET chat == JudgeCodeLoop(otests, 1, <<>>, None)
            job == ProcessJobLoop(otests, 1, <<>>, None)
        IN  /\ ~chat.raised /\ ~job.raised
            /\ VerdictKind(job.verdict.kind) = chat.verdict.kind
            /\ job.calls = chat.calls


\* the fields of one job as a poller may be shown them
ConsistentFields(status, result, error) ==
    /\ status \in {"queued", "running"} => (result = None /\ error = None)
    /\ status = "done" => error = None
    /\ status = "error" => (result = None /\ error # None)

\* C34: a poller reading a job at any instant sees consistent fields: queued
\* or running with result and error both null, done with error null, error
\* with result null and an error message; a non-null result is never shown
\* while the status is still running.
C34_PollConsistent ==
    (lastPoll # None /\ lastPoll.code = 200) =>
        ConsistentFields(lastPoll.status, lastPoll.result, lastPoll.error)

\* C34, what the worker loop does keep: a finished job shows exactly the
\* outcome of its call, and a queued job shows nothing
C34_TerminalConsistent ==
    (lastPoll # None /\ lastPoll.code = 200 /\ lastPoll.status # "running") =>
        ConsistentFields(lastPoll.status, lastPoll.result, lastPoll.error)


\* a step that puts one submission of user u on the submission queue
Enqueues(u) ==
    /\ Len(submission_queue') = Len(submission_queue) + 1
    /\ submission_queue'[Len(submission_queue')].user_id = u

\* C35: on the chat path a text message is put on the submission queue only
\* if its sender has a pending submission, the put carries that entry's
\* problem and language and removes the entry; a message that changes any
\* state is such a put; a /submit of a user who already has a pending entry
\* replaces it and puts nothing on the queue.
C35_PendingGate ==
    [][ /\ \A u \in Users :
              Enqueues(u) =>
                  /\ u \in DOMAIN pending_submissions
                  /\ u \notin DOMAIN pending_submissions'
                  /\ submission_queue'[Len(submission_queue')].pid = pending_submissions[u].pid
                  /\ submission_queue'[Len(submission_queue')].lang = pending_submissions[u].lang
                  /\ subCount' = subCount + 1
        /\ \A u \in Users, code \in Codes :
              (HandleCode(u, code) /\ vars' # vars) => Enqueues(u)
        /\ \A u \in Users :
              (u \in DOMAIN pending_submissions /\ u \in DOMAIN pending_submissions') =>
                  /\ submission_queue' = submission_queue \/ Len(submission_queue') < Len(submission_queue)
                  /\ DOMAIN pending_submissions' = DOMAIN pending_submissions
      ]_vars

\* a submission was put on the queue and its sender's pending entry is gone
C35_Witness ==
    /\ deployment = "bot"
    /\ subCount >= 1
    /\ submission_queue # <<>>
    /\ DOMAIN pending_submissions = {}

\* a second /submit was accepted after the first code was enqueued
C35_SecondSubmit ==
    /\ deployment = "bot"
    /\ subCount >= 1
    /\ 1 \in DOMAIN pending_submissions


\* the jobs a request thread has created and not yet answered for
InFlight == { ijob[t] : t \in { x \in IngressThreads : ipc[x] = "save" } }

\* C36: every job in the store has had its id returned to the caller that
\* submitted it, once the request is over: a request that api_submit answers
\* with an error has created and enqueued no job.
C36_EveryJobAnswered ==
    \A id \in DOMAIN jobs : id \in answered \/ id \in InFlight

\* C36, the errors raised before create_job: a request refused for its user
\* id, its problem id or an unknown problem creates and enqueues nothing
C36_RefusedCreatesNothing ==
    [][ (lastSubmit'.seq # lastSubmit.seq /\ lastSubmit'.outcome # "enqueued")
            => (jobs' = jobs /\ job_queue' = job_queue) ]_vars

====
